---- MODULE Spec2Model ----
(***************************************************************************)
(* Verification model of the soia schema compiler:                         *)
(*   - the backward-compatibility checker (compatibility_checker.ts),      *)
(*     run on a `before` snapshot and an `after` snapshot obtained from it *)
(*     by schema edits;                                                    *)
(*   - the module set resolver (ModuleSet.parseAndResolve);                *)
(*   - the parser's TokenIterator and parseDeclarations (parser.ts);       *)
(*   - the WatchModeMainLoop of the compiler (compiler.ts);                *)
(*   - the Workspace of the language server (language_server.ts).          *)
(***************************************************************************)
EXTENDS Integers, Sequences, FiniteSets, TLC

VARIABLES
    before,                     \* resolved snapshot given as moduleSet.before
    after,                      \* resolved snapshot given as moduleSet.after
    edits,                      \* kinds of the schema edits that led from before to after
    touched,                    \* declarations edited: <<"record", key>> / <<"method", index>>
    budget,                     \* number of schema edits still allowed
    phase,                      \* "editing" until check() has run, then "checked"
    breakingChanges,            \* BackwardCompatibilityChecker.breakingChanges
    tokenToBreakingChangeKinds, \* BackwardCompatibilityChecker.tokenToBreakingChangeKinds
    seenRecordKeys,             \* BackwardCompatibilityChecker.seenRecordKeys
    descents,                   \* the record pairs the body of checkRecord has run for, in order
    files,                      \* the source files the ModuleParser reads, by module path
    modules,                    \* ModuleSet.modules: module path -> Result
    mutableRecordMap,           \* ModuleSet.mutableRecordMap: record key -> record location
    mutableResolvedModules,     \* ModuleSet.mutableResolvedModules
    mutableErrors,              \* ModuleSet.mutableErrors
    calls,                      \* top-level parseAndResolve calls made so far: <<path, Result>>
    cachedAtCall,               \* was the path of the last call already called at top level?
    inProgressSet,              \* the Set the last top-level call created, as the call left it
    resolutionLog,              \* the steps of doParseAndResolve and parseAndResolve, in order
    loop3,                      \* records of module.records that loop 3 of doParseAndResolve has handled
    recordBody,                 \* a record declaration read by parseRecord: record type and body
    builder,                    \* the RecordBuilder of parseRecord (with the error sink it writes to)
    parsedRecord,               \* the record parseRecord returns
    methodTokens,               \* a method declaration read by parseMethod
    parsedMethod,               \* the method parseMethod returns
    constant,                   \* a constant of a module: type, value and valueAsDenseJson
    moduleTokens,               \* ModuleTokens.tokens given to the TokenIterator: the token texts
    tokenIndex,                 \* TokenIterator.tokenIndex
    sinkErrors,                 \* TokenIterator.errors
    iterations,                 \* the iterations of the loop of parseDeclarations, in the order they end
    moduleDeclarations,         \* the declarations parseDeclarations(it, "module") returns
    generating,                 \* WatchModeMainLoop.generating
    mustRegenerate,             \* WatchModeMainLoop.mustRegenerate
    timeoutId,                  \* WatchModeMainLoop.timeoutId
    timeouts,                   \* the timeouts of globalThis.setTimeout that have neither fired nor been cleared
    generateRuns,               \* the generate() runs in progress: how far each has come
    watcher,                    \* has start() installed the Watcher?
    changeEvents,               \* number of "all" events the Watcher has delivered
    timeoutsSet,                \* number of setTimeout calls made by triggerGeneration
    unserved,                   \* has a '.soia' event arrived that no generate() run has started after?
    workspaceModules,           \* Workspace.modules: module path -> ModuleBundle
    scheduledResolution,        \* Workspace.scheduledResolution
    nodeTimeouts,               \* the timeouts of setTimeout in the language server, pending
    promises,                   \* the promises scheduleResolution and resolutionDone created, and their states
    obtained                    \* the promises callers got from resolutionDone

compatVars == <<before, after, edits, touched, budget, phase, breakingChanges,
                tokenToBreakingChangeKinds, seenRecordKeys, descents>>

moduleSetVars == <<files, modules, mutableRecordMap, mutableResolvedModules,
                   mutableErrors, calls, cachedAtCall, inProgressSet, resolutionLog>>

resolverVars == <<loop3>>

parserVars == <<recordBody, builder, parsedRecord, methodTokens, parsedMethod>>

constantVars == <<constant>>

iteratorVars == <<moduleTokens, tokenIndex, sinkErrors, iterations, moduleDeclarations>>

watchVars == <<generating, mustRegenerate, timeoutId, timeouts, generateRuns, watcher,
               changeEvents, timeoutsSet, unserved>>

workspaceVars == <<workspaceModules, scheduledResolution, nodeTimeouts, promises, obtained>>

vars == <<compatVars, moduleSetVars, resolverVars, parserVars, constantVars,
          iteratorVars, watchVars, workspaceVars>>

\* What the actions of one component leave alone.
otherThanCompat == <<moduleSetVars, resolverVars, parserVars, constantVars,
                     iteratorVars, watchVars, workspaceVars>>

otherThanModuleSet == <<compatVars, resolverVars, parserVars, constantVars,
                        iteratorVars, watchVars, workspaceVars>>

otherThanResolver ==
    <<compatVars, files, modules, mutableResolvedModules, calls, cachedAtCall,
      inProgressSet, resolutionLog, parserVars, constantVars,
      iteratorVars, watchVars, workspaceVars>>

otherThanParser == <<compatVars, moduleSetVars, resolverVars, constantVars,
                     iteratorVars, watchVars, workspaceVars>>

otherThanConstant ==
    <<compatVars, files, modules, mutableRecordMap, mutableResolvedModules, calls,
      cachedAtCall, inProgressSet, resolutionLog, resolverVars, parserVars,
      iteratorVars, watchVars, workspaceVars>>

otherThanIterator == <<compatVars, moduleSetVars, resolverVars, parserVars, constantVars,
                       watchVars, workspaceVars>>

watchVarsButRuns == <<generating, mustRegenerate, timeoutId, timeouts, watcher,
                      changeEvents, timeoutsSet, unserved>>

otherThanWatch == <<compatVars, moduleSetVars, resolverVars, parserVars, constantVars,
                    iteratorVars, workspaceVars>>

otherThanWorkspace == <<compatVars, moduleSetVars, resolverVars, parserVars, constantVars,
                        iteratorVars, watchVars>>

\* The components a specification does not exercise stay as constructed.
IdleCompat ==
    /\ before = [recordMap |-> <<>>, methods |-> <<>>]
    /\ after = [recordMap |-> <<>>, methods |-> <<>>]
    /\ edits = {}
    /\ touched = {}
    /\ budget = 0
    /\ phase = "idle"
    /\ breakingChanges = <<>>
    /\ tokenToBreakingChangeKinds = {}
    /\ seenRecordKeys = {}
    /\ descents = <<>>

IdleModuleSet ==
    /\ files = <<>>
    /\ modules = <<>>
    /\ mutableRecordMap = <<>>
    /\ mutableResolvedModules = <<>>
    /\ mutableErrors = <<>>
    /\ calls = <<>>
    /\ cachedAtCall = FALSE
    /\ inProgressSet = {}
    /\ resolutionLog = <<>>

IdleResolver == loop3 = 0

IdleParser ==
    /\ recordBody = [kind |-> "null"]
    /\ builder = [kind |-> "null"]
    /\ parsedRecord = [kind |-> "null"]
    /\ methodTokens = [kind |-> "null"]
    /\ parsedMethod = [kind |-> "null"]

IdleConstant == constant = [kind |-> "null"]

IdleIterator ==
    /\ moduleTokens = <<>>
    /\ tokenIndex = 0
    /\ sinkErrors = <<>>
    /\ iterations = <<>>
    /\ moduleDeclarations = [kind |-> "null"]

IdleWatch ==
    /\ generating = FALSE
    /\ mustRegenerate = FALSE
    /\ timeoutId = 0
    /\ timeouts = {}
    /\ generateRuns = <<>>
    /\ watcher = FALSE
    /\ changeEvents = 0
    /\ timeoutsSet = 0
    /\ unserved = FALSE

IdleWorkspace ==
    /\ workspaceModules = <<>>
    /\ scheduledResolution = [kind |-> "null"]
    /\ nodeTimeouts = {}
    /\ promises = <<>>
    /\ obtained = {}

\* The components outside the schema compiler proper.
IdleRuntime == IdleIterator /\ IdleWatch /\ IdleWorkspace

----------------------------------------------------------------------------
(* Bounds *)

\* Number of schema edits between the two snapshots (general specification).
MaxEdits == 2

\* Number of schema edits between the two snapshots (primitive-table specification).
MaxPrimEdits == 2

\* Number of import declarations in the files of a module set.
MaxImports == 3

\* Number of top-level parseAndResolve calls on a module set.
MaxCalls == 2

\* Number of fields with a record type in a module (recursivity specification).
MaxRefs == 3

\* Nesting depth of array and optional types (numbering specification).
MaxWrappers == 2

\* Number of declarations in a record body (parser specification).
MaxDeclarations == 3

\* Lengths of the module path and of the name of a method, in code units.
MaxPathLength == 2

MaxNameLength == 3

\* Number of items of a keyed array value (constant specification).
MaxItems == 2

----------------------------------------------------------------------------
(* Data model: tokens, types, fields, records, methods *)

Primitives ==
    {"bool", "int32", "int64", "uint64", "float32", "float64",
     "timestamp", "string", "bytes"}

\* A token is identified by the snapshot it was parsed in and its position.
Token(side, pos) == [side |-> side, pos |-> pos, text |-> pos]

\* getTokenForBreakingChange returns null for missing-record / missing-method.
NullToken == [side |-> "none", pos |-> 0, text |-> 0]

Prim(p) == [kind |-> "primitive", primitive |-> p]
Rec(k)  == [kind |-> "record", key |-> k]
Arr(t)  == [kind |-> "array", item |-> t]
Opt(t)  == [kind |-> "optional", other |-> t]

\* Field.type is undefined for the constant variants of an enum.
NoType == [kind |-> "undefined"]

\* Record.recordNumber is null when the record has no stable number.
NoNumber == -1

Field(side, pos, number, type) ==
    [name |-> Token(side, pos), number |-> number, type |-> type]

\* Result of a Map.get / find...ByNumber that finds nothing.
Undefined == [kind |-> "undefined"]

----------------------------------------------------------------------------
(* compatibility_checker.ts *)

\* Mutant: timestamp, string and bytes are compatible with every other type
\* instead of with themselves.
primitiveTypesAreCompatibleWithOthers(type) ==
    CASE type.before = "bool" ->
           type.after \in {"bool", "int32", "int64", "uint64", "float32", "float64"}
      [] type.before = "int32" ->
           type.after \in {"int32", "int64", "uint64", "float32", "float64"}
      [] type.before = "int64" ->
           type.after \in {"int64", "float32", "float64"}
      [] type.before = "uint64" ->
           type.after \in {"uint64", "float32", "float64"}
      [] type.before \in {"float32", "float64"} ->
           type.after \in {"float32", "float64"}
      [] type.before \in {"timestamp", "string", "bytes"} ->
           type.after # type.before

\* Mutant: the int64 case also accepts int32 (the relation made symmetric).
primitiveTypesAreCompatibleSymmetric(type) ==
    CASE type.before = "bool" ->
           type.after \in {"bool", "int32", "int64", "uint64", "float32", "float64"}
      [] type.before = "int32" ->
           type.after \in {"int32", "int64", "uint64", "float32", "float64"}
      [] type.before = "int64" ->
           type.after \in {"int32", "int64", "float32", "float64"}
      [] type.before = "uint64" ->
           type.after \in {"uint64", "float32", "float64"}
      [] type.before \in {"float32", "float64"} ->
           type.after \in {"float32", "float64"}
      [] type.before \in {"timestamp", "string", "bytes"} ->
           type.after = type.before

primitiveTypesAreCompatible(type) ==
    CASE type.before = "bool" ->
           type.after \in {"bool", "int32", "int64", "uint64", "float32", "float64"}
      [] type.before = "int32" ->
           type.after \in {"int32", "int64", "uint64", "float32", "float64"}
      [] type.before = "int64" ->
           type.after \in {"int64", "float32", "float64"}
      [] type.before = "uint64" ->
           type.after \in {"uint64", "float32", "float64"}
      [] type.before \in {"float32", "float64"} ->
           type.after \in {"float32", "float64"}
      [] type.before \in {"timestamp", "string", "bytes"} ->
           type.after = type.before

RECURSIVE getTokenForExpression(_)
getTokenForExpression(expression) ==
    CASE expression.kind = "item" -> getTokenForExpression(expression.arrayExpression)
      [] expression.kind = "optional-value" ->
           getTokenForExpression(expression.optionalExpression)
      [] expression.kind = "property" -> expression.fieldName
      [] expression.kind = "as-variant" -> expression.variantName
      [] expression.kind = "record" -> expression.recordName
      [] expression.kind = "request-type" -> expression.methodName
      [] expression.kind = "response-type" -> expression.methodName

getTokenForBreakingChange(breakingChange) ==
    CASE breakingChange.kind = "illegal-type-change" ->
           getTokenForExpression(breakingChange.expression.after)
      [] breakingChange.kind \in {"missing-slots", "record-kind-change",
                                  "variant-kind-change"} ->
           breakingChange.record.after.name
      [] breakingChange.kind = "missing-variant" ->
           breakingChange.record.after.name
      [] breakingChange.kind = "removed-number-reintroduced" ->
           breakingChange.reintroducedAs
      [] breakingChange.kind \in {"missing-record", "missing-method"} ->
           NullToken

\* The checker's mutable fields, threaded through the recursive descent.
NewChecker ==
    [breakingChanges |-> <<>>,
     tokenToBreakingChangeKinds |-> {},
     seenRecordKeys |-> {},
     descents |-> <<>>]

\* Mutant: every breaking change with a token is pushed, seen before or not.
pushBreakingChangeNoDedup(st, breakingChange) ==
    LET token == getTokenForBreakingChange(breakingChange)
    IN  IF token = NullToken THEN st
        ELSE [st EXCEPT
                !.tokenToBreakingChangeKinds = @ \cup {<<token, breakingChange.kind>>},
                !.breakingChanges = Append(@, breakingChange)]

pushBreakingChange(st, breakingChange) ==
    LET token == getTokenForBreakingChange(breakingChange)
    IN  IF token = NullToken THEN st
        ELSE IF <<token, breakingChange.kind>> \in st.tokenToBreakingChangeKinds THEN st
        ELSE [st EXCEPT
                !.tokenToBreakingChangeKinds = @ \cup {<<token, breakingChange.kind>>},
                !.breakingChanges = Append(@, breakingChange)]

\* Mutant: the fields are indexed by their position instead of their number.
indexFieldsByPosition(record, number) ==
    IF number + 1 \in 1..Len(record.fields) THEN record.fields[number + 1]
    ELSE [kind |-> "undefined"]

\* indexFields(record).get(number): a later field with the same number wins.
indexFields(record, number) ==
    LET idx == {i \in 1..Len(record.fields) : record.fields[i].number = number}
    IN  IF idx = {} THEN Undefined
        ELSE record.fields[CHOOSE i \in idx : \A j \in idx : j <= i]

SeqToSet(s) == {s[i] : i \in 1..Len(s)}

\* Mutant: the removed numbers are looked up among the fields of record.before.
RECURSIVE checkRemovedNumbersInBefore(_, _, _, _)
checkRemovedNumbersInBefore(st, record, recordExpression, i) ==
    IF i > Len(record.before.removedNumbers) THEN st
    ELSE LET removedNumber == record.before.removedNumbers[i]
             fieldAfter == indexFields(record.before, removedNumber)
             st1 == IF fieldAfter # Undefined
                    THEN pushBreakingChange(st,
                           [kind |-> "removed-number-reintroduced",
                            record |-> record,
                            recordExpression |-> recordExpression,
                            removedNumber |-> removedNumber,
                            reintroducedAs |-> fieldAfter.name])
                    ELSE st
         IN  checkRemovedNumbersInBefore(st1, record, recordExpression, i + 1)

\* Loop over record.before.removedNumbers (from index i on).
RECURSIVE checkRemovedNumbers(_, _, _, _)
checkRemovedNumbers(st, record, recordExpression, i) ==
    IF i > Len(record.before.removedNumbers) THEN st
    ELSE LET removedNumber == record.before.removedNumbers[i]
             fieldAfter == indexFields(record.after, removedNumber)
             st1 == IF fieldAfter # Undefined
                    THEN pushBreakingChange(st,
                           [kind |-> "removed-number-reintroduced",
                            record |-> record,
                            recordExpression |-> recordExpression,
                            removedNumber |-> removedNumber,
                            reintroducedAs |-> fieldAfter.name])
                    ELSE st
         IN  checkRemovedNumbers(st1, record, recordExpression, i + 1)

fieldExpression(isStruct, recordExpression, fieldBefore, fieldAfter) ==
    IF isStruct
    THEN [before |-> [kind |-> "property",
                      structExpression |-> recordExpression.before,
                      fieldName |-> fieldBefore.name],
          after  |-> [kind |-> "property",
                      structExpression |-> recordExpression.after,
                      fieldName |-> fieldAfter.name]]
    ELSE [before |-> [kind |-> "as-variant",
                      enumExpression |-> recordExpression.before,
                      variantName |-> fieldBefore.name],
          after  |-> [kind |-> "as-variant",
                      enumExpression |-> recordExpression.after,
                      variantName |-> fieldAfter.name]]

RECURSIVE checkType(_, _, _, _)
RECURSIVE checkRecord(_, _, _, _)
RECURSIVE checkFields(_, _, _, _, _)

\* Loop over record.before.fields (from index i on).
checkFields(ms, st, record, recordExpression, i) ==
    IF i > Len(record.before.fields) THEN st
    ELSE LET fieldBefore == record.before.fields[i]
             fieldAfter == indexFields(record.after, fieldBefore.number)
             isStruct == record.before.recordType = "struct"
             st1 ==
               IF fieldAfter = Undefined
               THEN IF fieldBefore.number \notin SeqToSet(record.after.removedNumbers)
                    THEN pushBreakingChange(st,
                           [kind |-> "missing-variant",
                            record |-> record,
                            enumEpression |-> recordExpression,
                            variantName |-> fieldBefore.name,
                            number |-> fieldBefore.number])
                    ELSE st
               ELSE IF fieldBefore.type # NoType /\ fieldAfter.type # NoType
               THEN checkType(ms, st,
                              [before |-> fieldBefore.type, after |-> fieldAfter.type],
                              fieldExpression(isStruct, recordExpression,
                                              fieldBefore, fieldAfter))
               ELSE IF fieldBefore.type # NoType \/ fieldAfter.type # NoType
               THEN pushBreakingChange(st,
                      [kind |-> "variant-kind-change",
                       record |-> record,
                       enumEpression |-> recordExpression,
                       variantName |-> [before |-> fieldBefore.name,
                                        after |-> fieldAfter.name],
                       number |-> fieldBefore.number])
               ELSE st
         IN  checkFields(ms, st1, record, recordExpression, i + 1)

checkRecord(ms, st, record, recordExpression) ==
    LET recordKeys == <<record.before.key, record.after.key>>
    IN  IF recordKeys \in st.seenRecordKeys THEN st
        ELSE
          LET st1 == [st EXCEPT !.seenRecordKeys = @ \cup {recordKeys},
                                !.descents = Append(@, recordKeys)]
              recordType == [before |-> record.before.recordType,
                             after |-> record.after.recordType]
          IN  IF recordType.after # recordType.before
              THEN pushBreakingChange(st1,
                     [kind |-> "record-kind-change",
                      record |-> record,
                      recordExpression |-> recordExpression,
                      recordType |-> recordType])
              ELSE IF record.after.numSlotsInclRemovedNumbers
                        < record.before.numSlotsInclRemovedNumbers
              THEN pushBreakingChange(st1,
                     [kind |-> "missing-slots",
                      record |-> record,
                      recordExpression |-> recordExpression,
                      missingRangeStart |-> record.after.numSlotsInclRemovedNumbers,
                      missingRangeEnd |-> record.before.numSlotsInclRemovedNumbers])
              ELSE checkFields(ms,
                               checkRemovedNumbers(st1, record, recordExpression, 1),
                               record, recordExpression, 1)

checkType(ms, st, type, expression) ==
    LET illegalTypeChange ==
          [kind |-> "illegal-type-change", expression |-> expression, type |-> type]
    IN  CASE type.before.kind = "array" ->
               IF type.after.kind = "array"
               THEN checkType(ms, st,
                      [before |-> type.before.item, after |-> type.after.item],
                      [before |-> [kind |-> "item", arrayExpression |-> expression.before],
                       after  |-> [kind |-> "item", arrayExpression |-> expression.after]])
               ELSE pushBreakingChange(st, illegalTypeChange)
          [] type.before.kind = "optional" ->
               IF type.after.kind = "optional"
               THEN checkType(ms, st,
                      [before |-> type.before.other, after |-> type.after.other],
                      [before |-> [kind |-> "optional-value",
                                   optionalExpression |-> expression.before],
                       after  |-> [kind |-> "optional-value",
                                   optionalExpression |-> expression.after]])
               ELSE pushBreakingChange(st, illegalTypeChange)
          [] type.before.kind = "record" ->
               IF type.after.kind = "record"
               THEN checkRecord(ms, st,
                      [before |-> ms.before.recordMap[type.before.key],
                       after  |-> ms.after.recordMap[type.after.key]],
                      expression)
               ELSE pushBreakingChange(st, illegalTypeChange)
          [] type.before.kind = "primitive" ->
               IF type.after.kind # "primitive"
                  \/ ~primitiveTypesAreCompatible(
                        [before |-> type.before.primitive,
                         after |-> type.after.primitive])
               THEN pushBreakingChange(st, illegalTypeChange)
               ELSE st

checkMethod(ms, st, method) ==
    LET st1 == checkType(ms, st,
                 [before |-> method.before.requestType,
                  after |-> method.after.requestType],
                 [before |-> [kind |-> "request-type", methodName |-> method.before.name],
                  after  |-> [kind |-> "request-type", methodName |-> method.after.name]])
    IN  checkType(ms, st1,
          [before |-> method.before.responseType,
           after |-> method.after.responseType],
          [before |-> [kind |-> "response-type", methodName |-> method.before.name],
           after  |-> [kind |-> "response-type", methodName |-> method.after.name]])

\* ModuleSet.findMethodByNumber: the method carrying that number, if any.
findMethodByNumber(moduleSet, number) ==
    LET idx == {i \in 1..Len(moduleSet.methods) : moduleSet.methods[i].number = number}
    IN  IF idx = {} THEN Undefined
        ELSE moduleSet.methods[CHOOSE i \in idx : \A j \in idx : i <= j]

\* ModuleSet.findRecordByNumber: the record carrying that stable number, if any.
findRecordByNumber(moduleSet, recordNumber) ==
    LET idx == {i \in 1..Len(moduleSet.records) :
                  moduleSet.recordMap[moduleSet.records[i]].recordNumber = recordNumber}
    IN  IF idx = {} THEN Undefined
        ELSE moduleSet.recordMap[moduleSet.records[CHOOSE i \in idx : \A j \in idx : i <= j]]

\* Mutant: hasExplicitNumber is not looked at.
RECURSIVE checkMethodsAll(_, _, _)
checkMethodsAll(ms, st, i) ==
    IF i > Len(ms.before.methods) THEN st
    ELSE LET methodBefore == ms.before.methods[i]
             methodAfter == findMethodByNumber(ms.after, methodBefore.number)
             st1 == IF methodAfter = Undefined
                    THEN [st EXCEPT !.breakingChanges =
                            Append(@, [kind |-> "missing-method", method |-> methodBefore])]
                    ELSE checkMethod(ms, st, [before |-> methodBefore, after |-> methodAfter])
         IN  checkMethodsAll(ms, st1, i + 1)

\* First loop of check(): the methods of the module (from index i on).
RECURSIVE checkMethods(_, _, _)
checkMethods(ms, st, i) ==
    IF i > Len(ms.before.methods) THEN st
    ELSE LET methodBefore == ms.before.methods[i]
             methodAfter == findMethodByNumber(ms.after, methodBefore.number)
             st1 == IF ~methodBefore.hasExplicitNumber THEN st
                    ELSE IF methodAfter = Undefined
                    THEN [st EXCEPT !.breakingChanges =
                            Append(@, [kind |-> "missing-method", method |-> methodBefore])]
                    ELSE checkMethod(ms, st, [before |-> methodBefore, after |-> methodAfter])
         IN  checkMethods(ms, st1, i + 1)

\* Mutant: the pairs seen are forgotten from one numbered record to the next.
RECURSIVE checkRecordsForgetting(_, _, _)
checkRecordsForgetting(ms, st, i) ==
    IF i > Len(ms.before.records) THEN st
    ELSE LET recordBefore == ms.before.recordMap[ms.before.records[i]]
             recordNumber == recordBefore.recordNumber
             recordAfter == findRecordByNumber(ms.after, recordNumber)
             st1 == IF recordNumber = NoNumber THEN st
                    ELSE IF recordAfter = Undefined
                    THEN [st EXCEPT !.breakingChanges =
                            Append(@, [kind |-> "missing-record",
                                       record |-> recordBefore,
                                       recordNumber |-> recordNumber])]
                    ELSE checkRecord(ms, [st EXCEPT !.seenRecordKeys = {}],
                           [before |-> recordBefore, after |-> recordAfter],
                           [before |-> [kind |-> "record", recordName |-> recordBefore.name],
                            after  |-> [kind |-> "record", recordName |-> recordAfter.name]])
         IN  checkRecordsForgetting(ms, st1, i + 1)

\* Second loop of check(): the records of the module (from index i on).
RECURSIVE checkRecords(_, _, _)
checkRecords(ms, st, i) ==
    IF i > Len(ms.before.records) THEN st
    ELSE LET recordBefore == ms.before.recordMap[ms.before.records[i]]
             recordNumber == recordBefore.recordNumber
             recordAfter == findRecordByNumber(ms.after, recordNumber)
             st1 == IF recordNumber = NoNumber THEN st
                    ELSE IF recordAfter = Undefined
                    THEN [st EXCEPT !.breakingChanges =
                            Append(@, [kind |-> "missing-record",
                                       record |-> recordBefore,
                                       recordNumber |-> recordNumber])]
                    ELSE checkRecord(ms, st,
                           [before |-> recordBefore, after |-> recordAfter],
                           [before |-> [kind |-> "record", recordName |-> recordBefore.name],
                            after  |-> [kind |-> "record", recordName |-> recordAfter.name]])
         IN  checkRecords(ms, st1, i + 1)

\* check(): returns the checker's final state; its breakingChanges is the result.
check(ms) == checkRecords(ms, checkMethods(ms, NewChecker, 1), 1)

checkBackwardCompatibility(moduleSet) == check(moduleSet)

----------------------------------------------------------------------------
(* Resolved snapshots.  A record is shaped as RecordBuilder.build leaves it. *)

\* RecordBuilder.build: numSlotsInclRemovedNumbers is numbers.size for a
\* struct (its fields plus its removed numbers) and 0 for an enum.
build(key, name, recordType, stableId, fields, removedNumbers) ==
    [key |-> key,
     name |-> name,
     recordType |-> recordType,
     recordNumber |-> stableId,
     fields |-> fields,
     removedNumbers |-> removedNumbers,
     numSlotsInclRemovedNumbers |->
        IF recordType = "struct" THEN Len(fields) + Len(removedNumbers) ELSE 0]

\* parseMethod: a method and its number (explicit, or the hash of its name).
Method(side, pos, number, hasExplicitNumber, requestType, responseType) ==
    [name |-> Token(side, pos),
     number |-> number,
     hasExplicitNumber |-> hasExplicitNumber,
     requestType |-> requestType,
     responseType |-> responseType]

\* The module
\*   struct A(1) { f: B; removed; g: [A]?; h: C; }
\*   struct B { x: <pb>; y: string; }
\*   enum E(2) { OK; err: string; removed; }
\*   struct C { p: int32; }
\*   struct Z { a: string; }
\*   method Get(<pb>): string = 101;
\*   method Aux(Z): bool;
\* parsed and resolved on its own as one side of the comparison.
Snapshot(side, pb) ==
    [records |-> <<1, 2, 3, 4, 5>>,
     recordMap |->
       <<build(1, Token(side, 100), "struct", 1,
               <<Field(side, 101, 0, Rec(2)),
                 Field(side, 103, 2, Opt(Arr(Rec(1)))),
                 Field(side, 104, 3, Rec(4))>>,
               <<1>>),
         build(2, Token(side, 200), "struct", NoNumber,
               <<Field(side, 201, 0, Prim(pb)),
                 Field(side, 202, 1, Prim("string"))>>,
               <<>>),
         build(3, Token(side, 300), "enum", 2,
               <<Field(side, 302, 1, NoType),
                 Field(side, 303, 2, Prim("string"))>>,
               <<3>>),
         build(4, Token(side, 400), "struct", NoNumber,
               <<Field(side, 401, 0, Prim("int32"))>>,
               <<>>),
         build(5, Token(side, 500), "struct", NoNumber,
               <<Field(side, 501, 0, Prim("string"))>>,
               <<>>)>>,
     methods |->
       <<Method(side, 1001, 101, TRUE, Prim(pb), Prim("string")),
         Method(side, 1002, 70001, FALSE, Rec(5), Prim("bool"))>>]

\* The module
\*   struct P(1) { x: <pb>; y: [<pb>]?; }
\*   method Get(<pb>): <pb> = 101;
\* parsed and resolved on its own as one side of the comparison.
PrimSnapshot(side, pb) ==
    [records |-> <<1>>,
     recordMap |->
       <<build(1, Token(side, 100), "struct", 1,
               <<Field(side, 101, 0, Prim(pb)),
                 Field(side, 102, 1, Opt(Arr(Prim(pb))))>>,
               <<>>)>>,
     methods |-> <<Method(side, 1001, 101, TRUE, Prim(pb), Prim(pb))>>]

RecordKeys == DOMAIN after.recordMap

----------------------------------------------------------------------------
(* Schema edits made between the two snapshots (the `after` source text is  *)
(* the `before` text changed by the developer, then parsed and resolved).   *)

RECURSIVE leafOf(_)
leafOf(type) ==
    CASE type.kind = "array" -> leafOf(type.item)
      [] type.kind = "optional" -> leafOf(type.other)
      [] OTHER -> type

RECURSIVE replaceLeaf(_, _)
replaceLeaf(type, leaf) ==
    CASE type.kind = "array" -> Arr(replaceLeaf(type.item, leaf))
      [] type.kind = "optional" -> Opt(replaceLeaf(type.other, leaf))
      [] OTHER -> leaf

Max(S) == CHOOSE x \in S : \A y \in S : y <= x

usedNumbers(record) ==
    {record.fields[i].number : i \in 1..Len(record.fields)}
      \cup SeqToSet(record.removedNumbers)

\* The number the parser gives to the next declaration of the record when it
\* must not collide with any number in use: the next slot of a struct, a
\* number above every number of an enum.
nextNumber(record) ==
    IF record.recordType = "struct" THEN record.numSlotsInclRemovedNumbers
    ELSE Max(usedNumbers(record) \cup {0}) + 1

RemoveAt(s, i) == SubSeq(s, 1, i - 1) \o SubSeq(s, i + 1, Len(s))

\* removedNumbers is kept in ascending order.
InsertSorted(s, n) ==
    LET lower == {i \in 1..Len(s) : s[i] < n}
        cut == IF lower = {} THEN 0 ELSE Max(lower)
    IN  SubSeq(s, 1, cut) \o <<n>> \o SubSeq(s, cut + 1, Len(s))

rebuilt(record, fields, removedNumbers) ==
    build(record.key, record.name, record.recordType, record.recordNumber,
          fields, removedNumbers)

\* A struct keeps the numbers {0..n-1}: only its last slot can go away.
canDropNumber(record, number) ==
    record.recordType = "enum" \/ number = record.numSlotsInclRemovedNumbers - 1

typeEditKind(old, new) ==
    IF /\ old.kind = "primitive"
       /\ new.kind = "primitive"
       /\ primitiveTypesAreCompatible([before |-> old.primitive, after |-> new.primitive])
    THEN "widen"
    ELSE "retype"

Edit(kind, target, newAfter) ==
    /\ phase = "editing"
    /\ budget > 0
    /\ after' = newAfter
    /\ edits' = edits \cup {kind}
    /\ touched' = touched \cup {target}
    /\ budget' = budget - 1
    /\ UNCHANGED <<before, phase, breakingChanges, tokenToBreakingChangeKinds,
                   seenRecordKeys, descents>>
    /\ UNCHANGED otherThanCompat

RenameRecord ==
    \E k \in RecordKeys :
      /\ after.recordMap[k].name.text = after.recordMap[k].name.pos
      /\ Edit("rename", <<"record", k>>,
              [after EXCEPT !.recordMap[k].name.text = @ + 5000])

RenameField ==
    \E k \in RecordKeys : \E i \in 1..Len(after.recordMap[k].fields) :
      /\ after.recordMap[k].fields[i].name.text = after.recordMap[k].fields[i].name.pos
      /\ Edit("rename", <<"record", k>>,
              [after EXCEPT !.recordMap[k].fields[i].name.text = @ + 5000])

RenameMethod ==
    \E m \in 1..Len(after.methods) :
      /\ after.methods[m].name.text = after.methods[m].name.pos
      /\ Edit("rename", <<"method", m>>,
              [after EXCEPT !.methods[m].name.text = @ + 5000])

\* Replace the innermost type of a field by another primitive or record.
SetFieldLeaf(leaves) ==
    \E k \in RecordKeys : \E i \in 1..Len(after.recordMap[k].fields) :
    \E leaf \in leaves :
      LET type == after.recordMap[k].fields[i].type
      IN  /\ type # NoType
          /\ leafOf(type) # leaf
          /\ Edit(typeEditKind(leafOf(type), leaf), <<"record", k>>,
                  [after EXCEPT !.recordMap[k].fields[i].type = replaceLeaf(type, leaf)])

SetRequestLeaf(leaves) ==
    \E m \in 1..Len(after.methods) : \E leaf \in leaves :
      LET type == after.methods[m].requestType
      IN  /\ leafOf(type) # leaf
          /\ Edit(typeEditKind(leafOf(type), leaf), <<"method", m>>,
                  [after EXCEPT !.methods[m].requestType = replaceLeaf(type, leaf)])

SetResponseLeaf(leaves) ==
    \E m \in 1..Len(after.methods) : \E leaf \in leaves :
      LET type == after.methods[m].responseType
      IN  /\ leafOf(type) # leaf
          /\ Edit(typeEditKind(leafOf(type), leaf), <<"method", m>>,
                  [after EXCEPT !.methods[m].responseType = replaceLeaf(type, leaf)])

\* T becomes T? (or [T] becomes [T]?).
WrapField ==
    \E k \in RecordKeys : \E i \in 1..Len(after.recordMap[k].fields) :
      LET type == after.recordMap[k].fields[i].type
      IN  /\ type # NoType
          /\ type.kind # "optional"
          /\ Edit("retype", <<"record", k>>,
                  [after EXCEPT !.recordMap[k].fields[i].type = Opt(type)])

WrapRequest ==
    \E m \in 1..Len(after.methods) :
      /\ after.methods[m].requestType.kind # "optional"
      /\ Edit("retype", <<"method", m>>,
              [after EXCEPT !.methods[m].requestType = Opt(@)])

\* A new field or variant, numbered after every number in use.
AddField ==
    \E k \in RecordKeys : \E type \in {Prim("int32"), NoType} :
      LET record == after.recordMap[k]
          number == nextNumber(record)
      IN  /\ type = NoType => record.recordType = "enum"
          /\ Edit(IF number \in usedNumbers(before.recordMap[k]) THEN "reuse" ELSE "add",
                  <<"record", k>>,
                  [after EXCEPT !.recordMap[k] =
                     rebuilt(record,
                             Append(record.fields,
                                    Field("after", 100 * k + 1 + number, number, type)),
                             record.removedNumbers)])

\* A new `removed;` marker, numbered after every number in use.
AddRemoved ==
    \E k \in RecordKeys :
      LET record == after.recordMap[k]
          number == nextNumber(record)
      IN  Edit(IF number \in usedNumbers(before.recordMap[k]) THEN "reuse" ELSE "removed",
               <<"record", k>>,
               [after EXCEPT !.recordMap[k] =
                  rebuilt(record, record.fields,
                          InsertSorted(record.removedNumbers, number))])

AddMethod ==
    /\ findMethodByNumber(after, 102) = Undefined
    /\ Edit("add", <<"method", Len(after.methods) + 1>>,
            [after EXCEPT !.methods =
               Append(@, Method("after", 1001 + Len(after.methods), 102, TRUE,
                                Prim("string"), Rec(2)))])

\* A field or variant is replaced by a `removed` marker with its number.
Retire ==
    \E k \in RecordKeys : \E i \in 1..Len(after.recordMap[k].fields) :
      LET record == after.recordMap[k]
      IN  Edit("retire", <<"record", k>>,
               [after EXCEPT !.recordMap[k] =
                  rebuilt(record, RemoveAt(record.fields, i),
                          InsertSorted(record.removedNumbers, record.fields[i].number))])

\* A field or variant is deleted without leaving a `removed` marker.
DropField ==
    \E k \in RecordKeys : \E i \in 1..Len(after.recordMap[k].fields) :
      LET record == after.recordMap[k]
      IN  /\ canDropNumber(record, record.fields[i].number)
          /\ Edit("drop", <<"record", k>>,
                  [after EXCEPT !.recordMap[k] =
                     rebuilt(record, RemoveAt(record.fields, i), record.removedNumbers)])

\* A `removed` marker is deleted.
DropRemoved ==
    \E k \in RecordKeys : \E j \in 1..Len(after.recordMap[k].removedNumbers) :
      LET record == after.recordMap[k]
      IN  /\ canDropNumber(record, record.removedNumbers[j])
          /\ Edit("drop", <<"record", k>>,
                  [after EXCEPT !.recordMap[k] =
                     rebuilt(record, record.fields, RemoveAt(record.removedNumbers, j))])

\* A `removed` marker is replaced by a live field or variant with its number.
Reintroduce ==
    \E k \in RecordKeys : \E j \in 1..Len(after.recordMap[k].removedNumbers) :
      LET record == after.recordMap[k]
          number == record.removedNumbers[j]
      IN  Edit("reintroduce", <<"record", k>>,
               [after EXCEPT !.recordMap[k] =
                  rebuilt(record,
                          Append(record.fields,
                                 Field("after", 100 * k + 1 + number, number, Prim("int32"))),
                          RemoveAt(record.removedNumbers, j))])

\* struct X {...} becomes enum X {} and conversely.
ChangeKind ==
    \E k \in RecordKeys :
      LET record == after.recordMap[k]
      IN  Edit("kind", <<"record", k>>,
               [after EXCEPT !.recordMap[k] =
                  build(k, record.name,
                        IF record.recordType = "struct" THEN "enum" ELSE "struct",
                        record.recordNumber, <<>>, <<>>)])

\* A constant variant becomes a value variant and conversely.
ToggleVariant ==
    \E k \in RecordKeys : \E i \in 1..Len(after.recordMap[k].fields) :
      /\ after.recordMap[k].recordType = "enum"
      /\ Edit("toggle", <<"record", k>>,
              [after EXCEPT !.recordMap[k].fields[i].type =
                 IF @ = NoType THEN Prim("string") ELSE NoType])

\* The stable number of a record is deleted.
UnnumberRecord ==
    \E k \in RecordKeys :
      /\ after.recordMap[k].recordNumber # NoNumber
      /\ Edit("unnumber", <<"record", k>>,
              [after EXCEPT !.recordMap[k].recordNumber = NoNumber])

\* The explicit number of a method is deleted: it gets the hash of its name.
UnnumberMethod ==
    \E m \in 1..Len(after.methods) :
      /\ after.methods[m].hasExplicitNumber
      /\ Edit("unnumber", <<"method", m>>,
              [after EXCEPT !.methods[m].hasExplicitNumber = FALSE,
                            !.methods[m].number = 70000 + after.methods[m].name.pos])

\* checkBackwardCompatibility({before, after})
Check ==
    /\ phase = "editing"
    /\ LET st == checkBackwardCompatibility([before |-> before, after |-> after])
       IN  /\ breakingChanges' = st.breakingChanges
           /\ tokenToBreakingChangeKinds' = st.tokenToBreakingChangeKinds
           /\ seenRecordKeys' = st.seenRecordKeys
           /\ descents' = st.descents
    /\ phase' = "checked"
    /\ UNCHANGED <<before, after, edits, touched, budget>>
    /\ UNCHANGED otherThanCompat

\* Types the general specification substitutes for the leaf of a type.
MainLeaves == {Prim("int64"), Prim("string"), Rec(4)}

\* Types the primitive-table specification substitutes for the leaf of a type.
PrimLeaves == {Prim(p) : p \in Primitives}

InitCompat(snapshots, n) ==
    /\ \E s \in snapshots :
         /\ before = s.before
         /\ after = s.after
    /\ edits = {}
    /\ touched = {}
    /\ budget = n
    /\ phase = "editing"
    /\ breakingChanges = <<>>
    /\ tokenToBreakingChangeKinds = {}
    /\ seenRecordKeys = {}
    /\ descents = <<>>
    /\ IdleModuleSet
    /\ IdleResolver
    /\ IdleParser
    /\ IdleConstant
    /\ IdleRuntime

Init ==
    InitCompat({[before |-> Snapshot("before", "int32"),
                 after |-> Snapshot("after", "int32")]}, MaxEdits)

Next ==
    \/ RenameRecord
    \/ RenameField
    \/ RenameMethod
    \/ SetFieldLeaf(MainLeaves)
    \/ SetRequestLeaf(MainLeaves)
    \/ SetResponseLeaf(MainLeaves)
    \/ WrapField
    \/ WrapRequest
    \/ AddField
    \/ AddRemoved
    \/ AddMethod
    \/ Retire
    \/ DropField
    \/ DropRemoved
    \/ Reintroduce
    \/ ChangeKind
    \/ ToggleVariant
    \/ UnnumberRecord
    \/ UnnumberMethod
    \/ Check

Spec == Init /\ [][Next]_vars

InitPrim ==
    InitCompat({[before |-> PrimSnapshot("before", pb),
                 after |-> PrimSnapshot("after", pb)] : pb \in Primitives},
               MaxPrimEdits)

NextPrim ==
    \/ SetFieldLeaf(PrimLeaves)
    \/ SetRequestLeaf(PrimLeaves)
    \/ SetResponseLeaf(PrimLeaves)
    \/ Check

SpecPrim == InitPrim /\ [][NextPrim]_vars

\* The records of the module sets the snapshot specification compares.
SnapshotKeys == {1, 2, 3}

\* The module
\*   struct A(1) { a: int32; removed; r: <record refs[1]>; }
\*   enum B(2)   { removed 3; K = 1; v: [<record refs[2]>] = 2; }
\*   struct C or enum C, with a field or variant of type <record refs[3]>?
\*   method Get(C): string = 101;
\* with distinct stable numbers, parsed and resolved without errors. A struct
\* whose refs entry is 0 has no field r; an enum's variant v is then a string.
RecursiveSnapshot(side, third, refs) ==
    LET type(k) == IF k = 1 THEN Rec(refs[k])
                   ELSE IF k = 2 THEN Arr(Rec(refs[k]))
                   ELSE Opt(Rec(refs[k]))
        struct(k, stableId) ==
          build(k, Token(side, 100 * k), "struct", stableId,
                <<Field(side, 100 * k + 1, 0, Prim("int32"))>>
                  \o (IF refs[k] = 0 THEN <<>>
                      ELSE <<Field(side, 100 * k + 2, 2, type(k))>>),
                <<1>>)
        enum(k, stableId) ==
          build(k, Token(side, 100 * k), "enum", stableId,
                <<Field(side, 100 * k + 1, 1, NoType),
                  Field(side, 100 * k + 2, 2,
                        IF refs[k] = 0 THEN Prim("string") ELSE type(k))>>,
                <<3>>)
    IN  [records |-> <<1, 2, 3>>,
         recordMap |-> <<struct(1, 1), enum(2, 2),
                         IF third = "struct" THEN struct(3, NoNumber)
                         ELSE enum(3, NoNumber)>>,
         methods |-> <<Method(side, 1001, 101, TRUE, Rec(3), Prim("string"))>>]

RecursiveSnapshots(side) ==
    {RecursiveSnapshot(side, third, refs) :
       third \in {"struct", "enum"}, refs \in [SnapshotKeys -> {0} \cup SnapshotKeys]}

\* checkBackwardCompatibility is given a resolved module set twice, or two
\* module sets resolved on their own.
InitSnapshots ==
    InitCompat({[before |-> s, after |-> s] : s \in RecursiveSnapshots("before")}
                 \cup {[before |-> b, after |-> a] :
                         b \in RecursiveSnapshots("before"),
                         a \in RecursiveSnapshots("after")}, 0)

NextSnapshots == Check

SpecSnapshots == InitSnapshots /\ [][NextSnapshots]_vars

----------------------------------------------------------------------------
(* ModuleSet: loop 3 of doParseAndResolve on the resolved records of a module  *)
(* (field recursivity, numbering constraint)                                   *)

\* ResolvedRecordRef
RecordRef(key, recordType, refToken) ==
    [kind |-> "record", key |-> key, recordType |-> recordType, refToken |-> refToken]

\* Mutant: in "hard" mode the fields of an enum are followed like a struct's.
RECURSIVE collectTypeDepsThroughEnums(_, _, _, _)
RECURSIVE collectFieldDeps(_, _, _, _, _)
RECURSIVE collectTypeDeps(_, _, _, _)
collectTypeDepsThroughEnums(map, input, mode, out) ==
    CASE input.kind = "record" ->
           IF input.key \in out THEN out
           ELSE collectFieldDeps(map, map[input.key], mode, out \cup {input.key}, 1)
      [] input.kind = "array" ->
           IF mode = "hard" THEN out ELSE collectTypeDeps(map, input.item, mode, out)
      [] input.kind = "optional" ->
           IF mode = "hard" THEN out ELSE collectTypeDeps(map, input.other, mode, out)
      [] OTHER -> out

\* ModuleSet.collectTypeDeps: `out` with the records the type depends on.
collectTypeDeps(map, input, mode, out) ==
    CASE input.kind = "record" ->
           IF input.key \in out THEN out
           ELSE LET record == map[input.key]
                IN  IF mode = "hard" /\ record.recordType = "enum"
                    THEN out \cup {input.key}
                    ELSE collectFieldDeps(map, record, mode, out \cup {input.key}, 1)
      [] input.kind = "array" ->
           IF mode = "hard" THEN out ELSE collectTypeDeps(map, input.item, mode, out)
      [] input.kind = "optional" ->
           IF mode = "hard" THEN out ELSE collectTypeDeps(map, input.other, mode, out)
      [] OTHER -> out

\* The loop of collectTypeDeps over the fields of a record (from index i on).
collectFieldDeps(map, record, mode, out, i) ==
    IF i > Len(record.fields) THEN out
    ELSE collectFieldDeps(map, record, mode,
                          IF record.fields[i].type = NoType THEN out
                          ELSE collectTypeDeps(map, record.fields[i].type, mode, out),
                          i + 1)

\* ModuleSet.storeFieldRecursivity: the record with field.isRecursive set
\* ("false" stands for the boolean false the parser initializes it with).
storeFieldRecursivity(map, record) ==
    [record EXCEPT !.fields =
       [i \in 1..Len(record.fields) |->
          LET field == record.fields[i]
          IN  IF field.type = NoType THEN field
              ELSE IF /\ record.recordType = "struct"
                      /\ record.key \in collectTypeDeps(map, field.type, "hard", {})
              THEN [field EXCEPT !.isRecursive = "hard"]
              ELSE IF record.key \in collectTypeDeps(map, field.type, "soft", {})
              THEN [field EXCEPT !.isRecursive = "soft"]
              ELSE field]]

NoRef == [kind |-> "false"]

\* Mutant: array and optional types are not looked into.
referencesImplicitlyNumberedRecordDirectly(map, input) ==
    CASE input.kind = "record" ->
           IF map[input.key].numbering = "implicit" THEN input ELSE NoRef
      [] OTHER -> NoRef

\* ModuleSet.referencesImplicitlyNumberedRecord
RECURSIVE referencesImplicitlyNumberedRecord(_, _)
referencesImplicitlyNumberedRecord(map, input) ==
    CASE input.kind = "array" -> referencesImplicitlyNumberedRecord(map, input.item)
      [] input.kind = "optional" -> referencesImplicitlyNumberedRecord(map, input.other)
      [] input.kind = "primitive" -> NoRef
      [] input.kind = "record" ->
           IF map[input.key].numbering = "implicit" THEN input ELSE NoRef

ImplicitNumberingMessage(referenced, owner) ==
    <<"Field type references a", referenced,
      "with implicit numbering, but field belongs to a", owner,
      "with explicit numbering">>

\* ModuleSet.verifyNumberingConstraint: the errors registered for the record.
RECURSIVE verifyNumberingConstraint(_, _, _)
verifyNumberingConstraint(map, record, i) ==
    IF record.numbering # "explicit" \/ i > Len(record.fields) THEN <<>>
    ELSE LET field == record.fields[i]
             invalidRef == IF field.type = NoType THEN NoRef
                           ELSE referencesImplicitlyNumberedRecord(map, field.type)
         IN  (IF invalidRef # NoRef
              THEN <<[token |-> invalidRef.refToken,
                      message |-> ImplicitNumberingMessage(invalidRef.recordType,
                                                           record.recordType)]>>
              ELSE <<>>)
             \o verifyNumberingConstraint(map, record, i + 1)

\* One round of loop 3 of doParseAndResolve: the next record of
\* module.records (the records are keyed 1, 2, ... in that order; no array of
\* the module has a key, so validateArrayKeys registers nothing).
ResolveRecord ==
    /\ loop3 < Cardinality(DOMAIN mutableRecordMap)
    /\ LET record == mutableRecordMap[loop3 + 1]
       IN  /\ mutableRecordMap' =
                [mutableRecordMap EXCEPT
                   ![loop3 + 1] = storeFieldRecursivity(mutableRecordMap, record)]
           /\ mutableErrors' =
                mutableErrors \o verifyNumberingConstraint(mutableRecordMap, record, 1)
    /\ loop3' = loop3 + 1
    /\ UNCHANGED otherThanResolver

RecordIds == {1, 2, 3}

RefToken(key, i) == [record |-> key, field |-> i]

\* A field as the parser builds it and loop 2 resolves its type.
ResolvedField(type) == [type |-> type, isRecursive |-> "false"]

\* The field of a record that has no record type: a primitive in a struct, a
\* constant variant in an enum.
PlainField(recordType) ==
    ResolvedField(IF recordType = "struct" THEN Prim("int32") ELSE NoType)

\* The resolved records of a module, each with two fields; `refs` gives, for
\* some of the fields, the record its type refers to and whether the
\* reference is wrapped (field 1 in an array, field 2 in an optional).
RecordGraph(recordTypes, numberings, refs) ==
    [k \in DOMAIN recordTypes |->
       [key |-> k,
        recordType |-> recordTypes[k],
        numbering |-> numberings[k],
        fields |->
          [i \in 1..2 |->
             IF refs[<<k, i>>].target = 0 THEN PlainField(recordTypes[k])
             ELSE LET ref == RecordRef(refs[<<k, i>>].target,
                                       recordTypes[refs[<<k, i>>].target],
                                       RefToken(k, i))
                  IN  ResolvedField(IF ~refs[<<k, i>>].wrapped THEN ref
                                    ELSE IF i = 1 THEN Arr(ref) ELSE Opt(ref))]]]

RefChoices ==
    {[target |-> 0, wrapped |-> FALSE]}
      \cup {[target |-> t, wrapped |-> w] : t \in RecordIds, w \in BOOLEAN}

InitResolver(maps) ==
    /\ mutableRecordMap \in maps
    /\ mutableErrors = <<>>
    /\ loop3 = 0
    /\ files = <<>>
    /\ modules = <<>>
    /\ mutableResolvedModules = <<>>
    /\ calls = <<>>
    /\ cachedAtCall = FALSE
    /\ inProgressSet = {}
    /\ resolutionLog = <<>>
    /\ IdleCompat
    /\ IdleParser
    /\ IdleConstant
    /\ IdleRuntime

InitRecursivity ==
    InitResolver(
      {RecordGraph(recordTypes, [k \in RecordIds |-> "implicit"], refs) :
         recordTypes \in [RecordIds -> {"struct", "enum"}],
         refs \in {r \in [RecordIds \X {1, 2} -> RefChoices] :
                     Cardinality({slot \in RecordIds \X {1, 2} :
                                    r[slot].target # 0}) <= MaxRefs}})

NextRecursivity == ResolveRecord

SpecRecursivity == InitRecursivity /\ [][NextRecursivity]_vars

\* The types a field can have: a reference to one of the records, inside
\* up to n arrays and optionals.
RECURSIVE WrappedRefs(_, _)
WrappedRefs(refs, n) ==
    IF n = 0 THEN refs
    ELSE LET inner == WrappedRefs(refs, n - 1)
         IN  inner \cup {Arr(t) : t \in inner} \cup {Opt(t) : t \in inner}

\* Record 1 has two fields of any type; record 2 is a record with one plain
\* field or, when it has no numbered declaration (numbering ""), none.
NumberingGraph(recordTypes, numberings, types) ==
    [k \in {1, 2} |->
       [key |-> k,
        recordType |-> recordTypes[k],
        numbering |-> numberings[k],
        fields |-> IF k = 1 THEN [i \in 1..2 |-> ResolvedField(types[i])]
                   ELSE IF numberings[k] = "" THEN <<>>
                   ELSE <<PlainField(recordTypes[k])>>]]

InitNumbering ==
    InitResolver(
      UNION {UNION {
        {NumberingGraph(recordTypes, numberings, <<t1, t2>>) :
           t1 \in {PlainField(recordTypes[1]).type}
                    \cup WrappedRefs({RecordRef(k, recordTypes[k], RefToken(1, 1)) :
                                        k \in {1, 2}}, MaxWrappers),
           t2 \in {PlainField(recordTypes[1]).type}
                    \cup WrappedRefs({RecordRef(k, recordTypes[k], RefToken(1, 2)) :
                                        k \in {1, 2}}, MaxWrappers)} :
        numberings \in {n \in [{1, 2} -> {"implicit", "explicit", ""}] : n[1] # ""}} :
        recordTypes \in [{1, 2} -> {"struct", "enum"}]})

NextNumbering == ResolveRecord

SpecNumbering == InitNumbering /\ [][NextNumbering]_vars

----------------------------------------------------------------------------
(* ModuleSet: parsing and resolving modules and their imports *)

\* Module paths. Module p declares two records, the first named after p and
\* the second p + SecondRecord; an import declaration names one of them:
\* `import <name> from "<q>"`.
Paths == {1, 2, 3}

SecondRecord == 10

RecordNames(modulePath) == <<modulePath, modulePath + SecondRecord>>

\* A name no module declares.
NoSuchName == 0

Null == [kind |-> "null"]

circularDependencyMessage == "Circular dependency between modules"

ImportToken(modulePath, i) == [module |-> modulePath, at |-> <<"import-path", i>>]

\* An UnresolvedRecordRef with one name part.
UnresolvedRecordRef(name) == [kind |-> "record", name |-> name]

\* A field as the parser leaves it: its type is not resolved yet.
UnresolvedField(unresolvedType) ==
    [unresolvedType |-> unresolvedType, type |-> NoType, isRecursive |-> "false"]

\* DefaultModuleParser.parseModule: the file is read, tokenized and parsed.
\* The first record of the module has one field per type name of the file,
\* the second one field of a primitive type.
parseModule(modulePath) ==
    LET file == files[modulePath]
    IN  IF ~file.exists THEN [result |-> Null, errors |-> <<>>]
        ELSE IF file.tokenError
        THEN [result |-> Null,
              errors |-> <<[token |-> [module |-> modulePath, at |-> <<"char", 0>>],
                            message |-> "Invalid sequence of characters"]>>]
        ELSE [result |-> [path |-> modulePath,
                          imports |-> file.imports,
                          records |-> [r \in 1..2 |->
                                         [key |-> RecordNames(modulePath)[r],
                                          modulePath |-> modulePath,
                                          recordType |-> "struct",
                                          numbering |-> "implicit",
                                          fields |->
                                            IF r = 1
                                            THEN [i \in 1..Len(file.typeNames) |->
                                                    UnresolvedField(
                                                      UnresolvedRecordRef(file.typeNames[i]))]
                                            ELSE <<UnresolvedField(Prim("int32"))>>]]],
              errors |-> IF file.parseError
                         THEN <<[token |-> [module |-> modulePath, at |-> <<"field", 0>>],
                                 message |-> "Duplicate field number"]>>
                         ELSE <<>>]

\* Mutant: an imported module with a circular dependency is reported like any
\* other imported module with errors.
importErrorsNoCycle(token, otherModule) ==
    IF otherModule.result = Null
    THEN <<[token |-> token, message |-> "Module not found"]>>
    ELSE IF otherModule.errors # <<>>
    THEN <<[token |-> token, message |-> "Imported module has errors",
            errorIsInOtherModule |-> TRUE]>>
    ELSE <<>>

\* Mutant: the errors of the imported module are reported again by the importer.
importErrorsRepeated(token, otherModule) ==
    IF otherModule.result = Null
    THEN <<[token |-> token, message |-> "Module not found"]>>
    ELSE IF otherModule.errors # <<>>
    THEN IF \E e \in 1..Len(otherModule.errors) :
              otherModule.errors[e].message = circularDependencyMessage
         THEN <<[token |-> token, message |-> circularDependencyMessage]>>
         ELSE <<[token |-> token, message |-> "Imported module has errors",
                 errorIsInOtherModule |-> TRUE]>> \o otherModule.errors
    ELSE <<>>

\* Mutant: the Result of the imported module is not looked at.
importErrorsIgnored(token, otherModule) == <<>>

\* The error an import declaration gets from the Result of the imported module.
importErrors(token, otherModule) ==
    IF otherModule.result = Null
    THEN <<[token |-> token, message |-> "Module not found"]>>
    ELSE IF otherModule.errors # <<>>
    THEN IF \E e \in 1..Len(otherModule.errors) :
              otherModule.errors[e].message = circularDependencyMessage
         THEN <<[token |-> token, message |-> circularDependencyMessage]>>
         ELSE <<[token |-> token, message |-> "Imported module has errors",
                 errorIsInOtherModule |-> TRUE]>>
    ELSE <<>>

\* The record a module declares under a name, in a sequence of zero or one.
declared(module, name) ==
    SelectSeq(module.records, LAMBDA record : record.key = name)

\* TypeResolver.resolve for the unresolved type of a field (a primitive or a
\* one-part record reference): acc with the resolved type (NoType for
\* undefined), the errors registered and the imports used.
resolve(set, module, input, token, acc) ==
    IF input.kind = "primitive" THEN [acc EXCEPT !.type = input]
    ELSE
      LET name == input.name
          cannotFindName == [token |-> token, message |-> "Cannot find name"]
          imports == SelectSeq(module.imports, LAMBDA import : import.name = name)
      IN  IF declared(module, name) # <<>>
          THEN [acc EXCEPT !.type = RecordRef(name, declared(module, name)[1].recordType,
                                              token)]
          ELSE IF imports # <<>>
          THEN LET newModulePath == imports[1].path
                   used == [acc EXCEPT !.usedImports = @ \cup {name}, !.type = NoType]
               IN  IF \/ newModulePath \notin DOMAIN set.modules
                      \/ set.modules[newModulePath].result = Null
                   THEN used
                   ELSE LET newIt == declared(set.modules[newModulePath].result, name)
                        IN  IF newIt = <<>>
                            THEN [used EXCEPT !.errors = Append(@, cannotFindName)]
                            ELSE [used EXCEPT
                                    !.type = RecordRef(newIt[1].key, newIt[1].recordType,
                                                       token)]
          ELSE [acc EXCEPT !.errors = Append(@, cannotFindName), !.type = NoType]

\* ModuleSet.storeResolvedFieldTypes: the fields of the record (from index i
\* on) with their type resolved.
RECURSIVE storeResolvedFieldTypes(_, _, _, _, _)
storeResolvedFieldTypes(set, module, record, i, acc) ==
    IF i > Len(record.fields) THEN acc
    ELSE LET resolved == resolve(set, module, record.fields[i].unresolvedType,
                                 [module |-> module.path, at |-> <<"type", record.key, i>>],
                                 acc)
         IN  storeResolvedFieldTypes(
               set, module, record, i + 1,
               [resolved EXCEPT
                  !.fields = Append(@, [record.fields[i] EXCEPT !.type = resolved.type])])

\* Loop 2 of doParseAndResolve over module.records (from index r on).
RECURSIVE resolveRecords(_, _, _, _)
resolveRecords(set, module, r, acc) ==
    IF r > Len(module.records) THEN acc
    ELSE LET stored == storeResolvedFieldTypes(set, module, module.records[r], 1,
                                               [acc EXCEPT !.fields = <<>>])
         IN  resolveRecords(set, module, r + 1,
                            [stored EXCEPT
                               !.records = Append(@, [module.records[r] EXCEPT
                                                        !.fields = stored.fields])])

RECURSIVE ensureAllImportsAreUsed(_, _, _)
ensureAllImportsAreUsed(module, usedImports, i) ==
    IF i > Len(module.imports) THEN <<>>
    ELSE (IF module.imports[i].name \notin usedImports
          THEN <<[token |-> [module |-> module.path, at |-> <<"imported-name", i>>],
                  message |-> "Unused import"]>>
          ELSE <<>>)
         \o ensureAllImportsAreUsed(module, usedImports, i + 1)

\* Modules.set(key, value)
MapSet(map, key, value) ==
    [k \in DOMAIN map \cup {key} |-> IF k = key THEN value ELSE map[k]]

\* Loop 1 of doParseAndResolve, and what the later loops write into the
\* records the map holds: the records of the module, by key.
setRecords(map, records) ==
    [k \in DOMAIN map \cup {records[j].key : j \in 1..Len(records)} |->
       LET at == {j \in 1..Len(records) : records[j].key = k}
       IN  IF at # {} THEN records[CHOOSE j \in at : TRUE] ELSE map[k]]

\* The keys of the records the types of the fields of a record refer to.
fieldKeys(record) ==
    UNION {IF record.fields[i].type # NoType
              /\ leafOf(record.fields[i].type).kind = "record"
           THEN {leafOf(record.fields[i].type).key}
           ELSE {} : i \in 1..Len(record.fields)}

\* The keys collectTypeDeps passes to recordMap.get when it starts from the
\* record references `keys`: it goes on from the fields of every record it
\* finds in the map.
RECURSIVE keysLookedUp(_, _)
keysLookedUp(map, keys) ==
    LET more == keys \cup UNION {fieldKeys(map[k]) : k \in keys \cap DOMAIN map}
    IN  IF more = keys THEN keys ELSE keysLookedUp(map, more)

\* Loop 3 of doParseAndResolve over module.records (from index r on): field
\* recursivity and the numbering constraint (no array of the module has a
\* key, so validateArrayKeys registers nothing). A record whose passes would
\* look up a key the map does not hold is left as it is.
RECURSIVE verifyRecords(_, _, _)
verifyRecords(records, r, acc) ==
    IF r > Len(records) THEN acc
    ELSE LET record == acc.map[records[r].key]
             keys == keysLookedUp(acc.map, fieldKeys(record))
         IN  verifyRecords(
               records, r + 1,
               IF keys \subseteq DOMAIN acc.map
               THEN [map |-> [acc.map EXCEPT
                                ![record.key] = storeFieldRecursivity(acc.map, record)],
                     errors |-> acc.errors
                                  \o verifyNumberingConstraint(acc.map, record, 1),
                     lookedUp |-> acc.lookedUp \cup keys]
               ELSE [acc EXCEPT !.lookedUp = @ \cup keys])

\* The modules of the map whose Result has a module and no error.
errorFree(map) ==
    {p \in DOMAIN map : map[p].result # Null /\ map[p].errors = <<>>}

\* The rest of doParseAndResolve for a module whose imports gave no error:
\* loops 1, 2 and 3 and the check of the imports used.
resolveModule(set, module) ==
    LET loop1 == setRecords(set.mutableRecordMap, module.records)
        atLoop2 ==
          [set EXCEPT
             !.mutableRecordMap = loop1,
             !.resolutionLog = Append(@, [op |-> "loop2", path |-> module.path,
                                          errorFree |-> errorFree(set.modules),
                                          inProgressSet |-> set.inProgressSet,
                                          recordKeys |-> DOMAIN loop1])]
        resolved == resolveRecords(atLoop2, module, 1,
                                   [errors |-> <<>>, usedImports |-> {}, type |-> NoType,
                                    fields |-> <<>>, records |-> <<>>])
        loop2 == setRecords(loop1, resolved.records)
        verified == verifyRecords(resolved.records, 1,
                                  [map |-> loop2, errors |-> <<>>, lookedUp |-> {}])
        resolvedModule ==
          [module EXCEPT
             !.records = [r \in 1..Len(module.records) |->
                            verified.map[module.records[r].key]]]
    IN  [set |-> [set EXCEPT
                    !.mutableResolvedModules = Append(@, resolvedModule),
                    !.mutableRecordMap = verified.map,
                    !.resolutionLog =
                       Append(atLoop2.resolutionLog,
                              [op |-> "loop3", path |-> module.path,
                               lookedUp |-> verified.lookedUp,
                               recordKeys |-> DOMAIN verified.map])],
         result |-> [result |-> resolvedModule,
                     errors |-> resolved.errors \o verified.errors
                                  \o ensureAllImportsAreUsed(module,
                                                             resolved.usedImports, 1)]]

\* Mutant: the module map is not looked up.
inMapNever(set, modulePath) == FALSE

\* this.modules.get(modulePath) !== undefined
inMap(set, modulePath) == modulePath \in DOMAIN set.modules

\* Mutant: the module stays in the in-progress set.
deleteNothing(set, value) == set

\* inProgressSet.delete(modulePath)
delete(set, value) == set \ {value}

RECURSIVE parseAndResolve(_, _)
RECURSIVE doParseAndResolve(_, _)
RECURSIVE processImports(_, _, _, _)

\* The loop over the import declarations of the module (from index i on).
\* set is the state of the ModuleSet and of the in-progress Set of the call
\* chain, threaded through the nested calls.
processImports(set, module, i, errors) ==
    IF i > Len(module.imports) THEN [set |-> set, errors |-> errors]
    ELSE
      LET token == ImportToken(module.path, i)
      IN  IF module.path \in set.inProgressSet
          THEN processImports(set, module, i + 1,
                              Append(errors, [token |-> token,
                                              message |-> circularDependencyMessage]))
          ELSE
            LET r == parseAndResolve([set EXCEPT !.inProgressSet = @ \cup {module.path}],
                                     module.imports[i].path)
            IN  processImports([r.set EXCEPT
                                  !.inProgressSet = delete(@, module.path)],
                               module, i + 1,
                               errors \o importErrors(token, r.result))

\* Mutant: a module with import errors gets a null result.
doParseAndResolveNullOnErrors(set, modulePath) ==
    LET started == [set EXCEPT
                      !.resolutionLog = Append(@, [op |-> "run", path |-> modulePath])]
        parseResult == parseModule(modulePath)
    IN  IF parseResult.result = Null THEN [set |-> started, result |-> parseResult]
        ELSE
          LET module == parseResult.result
              imported == processImports(started, module, 1, parseResult.errors)
          IN  IF imported.errors # <<>>
              THEN [set |-> imported.set,
                    result |-> [result |-> Null, errors |-> imported.errors]]
              ELSE resolveModule(imported.set, module)

doParseAndResolve(set, modulePath) ==
    LET started == [set EXCEPT
                      !.resolutionLog = Append(@, [op |-> "run", path |-> modulePath])]
        parseResult == parseModule(modulePath)
    IN  IF parseResult.result = Null THEN [set |-> started, result |-> parseResult]
        ELSE
          LET module == parseResult.result
              imported == processImports(started, module, 1, parseResult.errors)
          IN  IF imported.errors # <<>>
              THEN [set |-> imported.set,
                    result |-> [result |-> module, errors |-> imported.errors]]
              ELSE resolveModule(imported.set, module)

parseAndResolve(set, modulePath) ==
    IF inMap(set, modulePath)
    THEN [set |-> set, result |-> set.modules[modulePath]]
    ELSE LET r == doParseAndResolve(set, modulePath)
         IN  [set |-> [r.set EXCEPT
                         !.modules = MapSet(@, modulePath, r.result),
                         !.mutableErrors = @ \o r.result.errors,
                         !.resolutionLog = Append(@, [op |-> "set",
                                                      path |-> modulePath])],
              result |-> r.result]

\* A top-level call moduleSet.parseAndResolve(modulePath): it is given no
\* in-progress Set and makes a new one.
ParseAndResolve(modulePath) ==
    /\ Len(calls) < MaxCalls
    /\ LET r == parseAndResolve([modules |-> modules,
                                 mutableRecordMap |-> mutableRecordMap,
                                 mutableResolvedModules |-> mutableResolvedModules,
                                 mutableErrors |-> mutableErrors,
                                 inProgressSet |-> {},
                                 resolutionLog |-> resolutionLog],
                                modulePath)
       IN  /\ modules' = r.set.modules
           /\ mutableRecordMap' = r.set.mutableRecordMap
           /\ mutableResolvedModules' = r.set.mutableResolvedModules
           /\ mutableErrors' = r.set.mutableErrors
           /\ inProgressSet' = r.set.inProgressSet
           /\ resolutionLog' = r.set.resolutionLog
           /\ calls' = Append(calls, <<modulePath, r.result>>)
    /\ cachedAtCall' = \E c \in 1..Len(calls) : calls[c][1] = modulePath
    /\ UNCHANGED files
    /\ UNCHANGED otherThanModuleSet

\* The paths of a set, in increasing order.
RECURSIVE SortedSeq(_)
SortedSeq(S) ==
    IF S = {} THEN <<>>
    ELSE LET m == CHOOSE x \in S : \A y \in S : x <= y
         IN  <<m>> \o SortedSeq(S \ {m})

RECURSIVE SumOver(_, _)
SumOver(f, S) ==
    IF S = {} THEN 0
    ELSE LET x == CHOOSE y \in S : TRUE
         IN  Cardinality(f[x]) + SumOver(f, S \ {x})

ImportGraphs ==
    {g \in [Paths -> SUBSET Paths] : SumOver(g, Paths) <= MaxImports}

\* The module, if any, that declares its first import twice (with the two
\* names of the imported module).
TwiceIn(g) ==
    {0} \cup {p \in Paths : g[p] # {} /\ SumOver(g, Paths) + 1 <= MaxImports}

\* At most one file of the set is defective.
Defects ==
    {[path |-> 0, kind |-> "none"]}
      \cup {[path |-> p, kind |-> k] :
              p \in Paths,
              k \in {"missing", "token-error", "parse-error", "unknown-name",
                     "unused-import"}}

\* The source file of module p: it imports the modules of g[p] and its first
\* record has one field of its own type, one per imported name and, when
\* defective, one of an undeclared type or one imported name left unused.
File(g, twice, defect, p) ==
    LET paths == SortedSeq(g[p])
        imports == [i \in 1..Len(paths) |-> [path |-> paths[i], name |-> paths[i]]]
                     \o (IF twice = p
                         THEN <<[path |-> paths[1],
                                 name |-> RecordNames(paths[1])[2]]>>
                         ELSE <<>>)
        hit(kind) == defect.path = p /\ defect.kind = kind
        usedImports == IF hit("unused-import") /\ imports # <<>>
                       THEN Tail(imports) ELSE imports
    IN  [exists |-> ~hit("missing"),
         tokenError |-> hit("token-error"),
         parseError |-> hit("parse-error"),
         imports |-> imports,
         typeNames |-> <<p>> \o [i \in 1..Len(usedImports) |-> usedImports[i].name]
                         \o (IF hit("unknown-name") THEN <<NoSuchName>> ELSE <<>>)]

InitModuleSet ==
    /\ \E g \in ImportGraphs : \E twice \in TwiceIn(g) : \E defect \in Defects :
         files = [p \in Paths |-> File(g, twice, defect, p)]
    /\ modules = <<>>
    /\ mutableRecordMap = <<>>
    /\ mutableResolvedModules = <<>>
    /\ mutableErrors = <<>>
    /\ calls = <<>>
    /\ cachedAtCall = FALSE
    /\ inProgressSet = {}
    /\ resolutionLog = <<>>
    /\ IdleCompat
    /\ IdleResolver
    /\ IdleParser
    /\ IdleConstant
    /\ IdleRuntime

NextModuleSet == \E modulePath \in Paths : ParseAndResolve(modulePath)

SpecModuleSet == InitModuleSet /\ [][NextModuleSet]_vars

----------------------------------------------------------------------------
(* parser: parseRecord and its RecordBuilder *)

\* new RecordBuilder(recordName, recordType, ..., errors): the field
\* initializers, with the error sink the builder shares with the parser.
NewRecordBuilder(recordType) ==
    [recordType |-> recordType,
     nameToDeclaration |-> <<>>,
     numbers |-> {},
     numbering |-> "",
     removedNumbers |-> <<>>,
     errors |-> <<>>]

\* Properties every object has through Object.prototype; `name in object`
\* finds them too.
ObjectPrototype == {"constructor"}

\* `name in this.nameToDeclaration`
nameIn(name, nameToDeclaration) ==
    \/ \E i \in 1..Len(nameToDeclaration) : nameToDeclaration[i].name = name
    \/ name \in ObjectPrototype

\* Mutant: a declaration of the other mode changes the record's mode.
checkNumberingSwitchingMode(b, newNumbering, errorToken) ==
    IF b.numbering = "" THEN [b EXCEPT !.numbering = newNumbering]
    ELSE IF b.numbering # newNumbering
    THEN [b EXCEPT !.errors = Append(@, [token |-> errorToken,
                                         message |-> <<"Cannot mix implicit and explicit numbering">>]),
                   !.numbering = newNumbering]
    ELSE b

\* RecordBuilder.addDeclaration: "make sure we're not mixing implicit and
\* explicit numbering".
checkNumbering(b, newNumbering, errorToken) ==
    IF b.numbering = "" THEN [b EXCEPT !.numbering = newNumbering]
    ELSE IF b.numbering # newNumbering
    THEN [b EXCEPT !.errors = Append(@, [token |-> errorToken,
                                         message |-> <<"Cannot mix implicit and explicit numbering">>]),
                   !.numbering = "broken"]
    ELSE b

\* RecordBuilder.addDeclaration: "register the field number and make sure
\* it's unique"; `returned` tells that the loop left addDeclaration.
RECURSIVE registerNumbers(_, _, _, _)
registerNumbers(b, numbers, errorToken, i) ==
    IF i > Len(numbers) THEN [builder |-> b, returned |-> FALSE]
    ELSE IF numbers[i] \in b.numbers
    THEN [builder |-> [b EXCEPT !.errors = Append(@, [token |-> errorToken,
                                                      message |-> <<"Duplicate field number", numbers[i]>>]),
                                !.numbering = "broken"],
          returned |-> TRUE]
    ELSE IF numbers[i] = 0 /\ b.recordType = "enum"
    THEN [builder |-> [b EXCEPT !.errors = Append(@, [token |-> errorToken,
                                                      message |-> <<"Number 0 is reserved for UNKNOWN field">>])],
          returned |-> TRUE]
    ELSE registerNumbers([b EXCEPT !.numbers = @ \cup {numbers[i]}], numbers, errorToken, i + 1)

\* RecordBuilder.addDeclaration
addDeclaration(b, declaration) ==
    IF b.numbering = "broken" THEN b
    ELSE LET nextImplicitNumber ==
               Cardinality(b.numbers) + (IF b.recordType = "enum" THEN 1 ELSE 0)
             newNumbering ==
               CASE declaration.kind = "field" ->
                      IF declaration.number < 0 THEN "implicit" ELSE "explicit"
                 [] declaration.kind = "record" -> b.numbering
                 [] declaration.kind = "removed" ->
                      IF declaration.numbers # <<>> THEN "explicit" ELSE "implicit"
             numbered ==
               IF declaration.kind = "field" /\ declaration.number < 0
               THEN [declaration EXCEPT !.number = nextImplicitNumber]
               ELSE declaration
             numbers ==
               CASE declaration.kind = "field" -> <<numbered.number>>
                 [] declaration.kind = "record" -> <<>>
                 [] declaration.kind = "removed" ->
                      IF declaration.numbers # <<>> THEN declaration.numbers
                      ELSE <<nextImplicitNumber>>
             b1 == checkNumbering(b, newNumbering, declaration.token)
         IN  IF declaration.kind # "removed" /\ nameIn(declaration.name, b1.nameToDeclaration)
             THEN [b1 EXCEPT !.errors =
                     Append(@, [token |-> declaration.token,
                                message |-> <<"Duplicate identifier", declaration.name>>])]
             ELSE LET b2 == IF declaration.kind # "removed"
                            THEN [b1 EXCEPT !.nameToDeclaration = Append(@, numbered)]
                            ELSE b1
                      registered == registerNumbers(b2, numbers, declaration.token, 1)
                  IN  IF registered.returned \/ declaration.kind # "removed"
                      THEN registered.builder
                      ELSE [registered.builder EXCEPT !.removedNumbers = @ \o numbers]

\* Number.prototype.toString: the decimal digits of a number.
RECURSIVE NumberToString(_)
NumberToString(n) == IF n < 10 THEN <<n>> ELSE NumberToString(n \div 10) \o <<n % 10>>

\* The order of strings by their code units.
RECURSIVE stringLess(_, _)
stringLess(a, b) ==
    IF b = <<>> THEN FALSE
    ELSE IF a = <<>> THEN TRUE
    ELSE IF Head(a) # Head(b) THEN Head(a) < Head(b)
    ELSE stringLess(Tail(a), Tail(b))

\* Array.prototype.sort() called without a compare function: the elements
\* are ordered by their string conversions.
RECURSIVE sort(_)
sort(array) ==
    IF array = <<>> THEN <<>>
    ELSE LET last == array[Len(array)]
             front == sort(SubSeq(array, 1, Len(array) - 1))
             lower == {i \in 1..Len(front) :
                         ~stringLess(NumberToString(last), NumberToString(front[i]))}
             cut == IF lower = {} THEN 0 ELSE Max(lower)
         IN  SubSeq(front, 1, cut) \o <<last>> \o SubSeq(front, cut + 1, Len(front))

\* The token of the record's name.
RecordNameToken == [declaration |-> 0]

\* Mutant: every missing number is reported.
RECURSIVE missingNumberErrorsAll(_, _)
RECURSIVE missingNumberErrors(_, _)
missingNumberErrorsAll(b, i) ==
    IF b.recordType # "struct" \/ i >= Cardinality(b.numbers) THEN <<>>
    ELSE IF i \in b.numbers THEN missingNumberErrors(b, i + 1)
    ELSE <<[token |-> RecordNameToken, message |-> <<"Missing field number", i>>]>>
           \o missingNumberErrors(b, i + 1)

\* RecordBuilder.build: the loop that makes sure the field numbers of a
\* struct are consecutive starting from 0.
missingNumberErrors(b, i) ==
    IF b.recordType # "struct" \/ i >= Cardinality(b.numbers) THEN <<>>
    ELSE IF i \in b.numbers THEN missingNumberErrors(b, i + 1)
    ELSE <<[token |-> RecordNameToken, message |-> <<"Missing field number", i>>]>>

\* RecordBuilder.build: the builder afterwards and the record returned
\* (removedNumbers is sorted in place).
RecordBuilder_build(b) ==
    LET isStruct == b.recordType = "struct"
        fields == SelectSeq(b.nameToDeclaration, LAMBDA d : d.kind = "field")
        nestedRecords == SelectSeq(b.nameToDeclaration, LAMBDA d : d.kind = "record")
        removedNumbers == sort(b.removedNumbers)
    IN  [builder |-> [b EXCEPT !.errors = @ \o missingNumberErrors(b, 0),
                               !.removedNumbers = removedNumbers],
         record |->
           [kind |-> "record",
            name |-> RecordNameToken,
            recordType |-> b.recordType,
            declarations |-> b.nameToDeclaration,
            fields |-> fields,
            nestedRecords |-> nestedRecords,
            numbering |-> b.numbering,
            removedNumbers |-> removedNumbers,
            numSlots |-> IF isStruct /\ fields # <<>>
                         THEN Max({fields[i].number : i \in 1..Len(fields)}) + 1
                         ELSE 0,
            numSlotsInclRemovedNumbers |->
              IF isStruct THEN Cardinality(b.numbers) ELSE 0]]

\* parseRecord: the loop over the declarations of the body.
RECURSIVE addDeclarations(_, _, _)
addDeclarations(b, declarations, i) ==
    IF i > Len(declarations) THEN b
    ELSE addDeclarations(addDeclaration(b, declarations[i]), declarations, i + 1)

\* parseRecord, from the parsed body on.
parseRecord(body) ==
    RecordBuilder_build(addDeclarations(NewRecordBuilder(body.recordType),
                                        body.declarations, 1))

ParseRecord ==
    /\ recordBody # Null
    /\ parsedRecord = Null
    /\ builder' = parseRecord(recordBody).builder
    /\ parsedRecord' = parseRecord(recordBody).record
    /\ UNCHANGED <<recordBody, methodTokens, parsedMethod>>
    /\ UNCHANGED otherThanParser

\* What parseDeclarations can return for one declaration of a body: a field
\* (number -1 when none is written), a nested record, a `removed` marker
\* with its numbers (none, one, a list or a range, never one number twice).
DeclarationChoices ==
    {[kind |-> "field", name |-> name, number |-> number, token |-> Null] :
       name \in {"a", "b", "constructor"}, number \in {-1, 0, 1, 10}}
      \cup {[kind |-> "record", name |-> "a", token |-> Null]}
      \cup {[kind |-> "removed", numbers |-> numbers, token |-> Null] :
              numbers \in {<<>>, <<0>>, <<1>>, <<2>>, <<10>>, <<1, 2>>, <<10, 2>>}}

\* The token of the declaration at a position of the body (its name, or the
\* `removed` keyword).
DeclarationToken(i) == [declaration |-> i]

RecordBodies(maxDeclarations) ==
    UNION {{[recordType |-> recordType,
             declarations |->
               [i \in 1..n |-> [choice[i] EXCEPT !.token = DeclarationToken(i)]]] :
              recordType \in {"struct", "enum"},
              choice \in [1..n -> DeclarationChoices]} :
           n \in 0..maxDeclarations}

InitParser ==
    /\ recordBody \in RecordBodies(MaxDeclarations)
    /\ builder = Null
    /\ parsedRecord = Null
    /\ methodTokens = Null
    /\ parsedMethod = Null
    /\ IdleCompat
    /\ IdleModuleSet
    /\ IdleResolver
    /\ IdleConstant
    /\ IdleRuntime

NextParser == ParseRecord

SpecParser == InitParser /\ [][NextParser]_vars

----------------------------------------------------------------------------
(* parser: parseMethod and simpleHash *)

\* A JavaScript number with an integer value x is held as [hi, lo] with
\* x = hi * 2^16 + lo and 0 <= lo < 2^16 (hi carries the sign), so that the
\* arithmetic below is exact.
Radix == 65536

Number(hi, lo) == [hi |-> hi + (lo \div Radix), lo |-> lo % Radix]

\* ToInt32: the `|`, `<<` operators work on the number modulo 2^32, signed.
ToInt32(x) ==
    LET hi == x.hi % Radix
    IN  [hi |-> IF hi >= Radix \div 2 THEN hi - Radix ELSE hi, lo |-> x.lo]

\* ToUint32: `x >>> 0`
ToUint32(x) == [hi |-> x.hi % Radix, lo |-> x.lo]

\* x << 5
ShiftLeft5(x) == ToInt32(Number(ToInt32(x).hi * 32, x.lo * 32))

Minus(x, y) == Number(x.hi - y.hi, x.lo - y.lo)

Plus(x, y) == Number(x.hi + y.hi, x.lo + y.lo)

\* The loop of simpleHash from code unit i on.
RECURSIVE hashFrom(_, _, _)
hashFrom(input, hash, i) ==
    IF i > Len(input) THEN hash
    ELSE hashFrom(input,
                  ToInt32(Plus(Minus(ShiftLeft5(hash), hash), Number(0, input[i]))),
                  i + 1)

\* Mutant: the signed hash is returned.
simpleHashSigned(input) == hashFrom(input, Number(0, 0), 1)

\* simpleHash
simpleHash(input) == ToUint32(hashFrom(input, Number(0, 0), 1))

\* The code unit of ':'.
Colon == 58

\* parseMethod, from the tokens after the response type on: the number is
\* the one written after '=' or the hash of `${modulePath}:${methodName}`.
parseMethod(tokens) ==
    LET explicitNumber == tokens.number # Null
    IN  [kind |-> "method",
         name |-> tokens.name,
         number |-> IF explicitNumber THEN tokens.number
                    ELSE simpleHash(tokens.modulePath \o <<Colon>> \o tokens.name),
         hasExplicitNumber |-> explicitNumber]

ParseMethod ==
    /\ methodTokens # Null
    /\ parsedMethod = Null
    /\ parsedMethod' = parseMethod(methodTokens)
    /\ UNCHANGED <<recordBody, builder, parsedRecord, methodTokens>>
    /\ UNCHANGED otherThanParser

\* Code units of the texts: '/', 'm', 'G', 'z' and the greatest code unit.
CodeUnits == {47, 71, 109, 122, 65535}

Strings(min, max) == UNION {[1..n -> CodeUnits] : n \in min..max}

InitMethod ==
    /\ methodTokens \in
         {[modulePath |-> modulePath, name |-> name, number |-> number] :
            modulePath \in Strings(0, MaxPathLength),
            name \in Strings(1, MaxNameLength),
            number \in {Null, Number(0, 100), Number(Radix - 1, Radix - 1)}}
    /\ parsedMethod = Null
    /\ recordBody = Null
    /\ builder = Null
    /\ parsedRecord = Null
    /\ IdleCompat
    /\ IdleModuleSet
    /\ IdleResolver
    /\ IdleConstant
    /\ IdleRuntime

NextMethod == ParseMethod

SpecMethod == InitMethod /\ [][NextMethod]_vars

----------------------------------------------------------------------------
(* ModuleSet: constants (valueToDenseJson, validateKeyedItems) and the         *)
(* functions of literals.ts they call                                          *)

\* DenseJson values, and the `undefined` valueToDenseJson returns on an error.
JsonNumber(n) == [json |-> "number", value |-> n]

JsonString(text) == [json |-> "string", value |-> text]

JsonArray(items) == [json |-> "array", items |-> items]

JsonNull == [json |-> "null"]

JsonUndefined == [json |-> "undefined"]

\* String literal tokens and the strings they denote (unquoteAndUnescape).
QuotedLiterals ==
    [text \in {"''", "'0'", "'a'", "\"a\"", "'b'", "'A'", "\"A\"", "'B'", "'c'", "'v'"} |->
       CASE text = "''" -> ""
         [] text = "'0'" -> "0"
         [] text \in {"'a'", "\"a\""} -> "a"
         [] text = "'b'" -> "b"
         [] text \in {"'A'", "\"A\""} -> "A"
         [] text = "'B'" -> "B"
         [] text = "'c'" -> "c"
         [] text = "'v'" -> "v"]

\* Integer tokens, their values and their canonical decimal texts.
IntegerLiterals ==
    [text \in {"0", "-0", "1", "01", "2", "5"} |->
       CASE text \in {"0", "-0"} -> [value |-> 0, canonical |-> "0"]
         [] text \in {"1", "01"} -> [value |-> 1, canonical |-> "1"]
         [] text = "2" -> [value |-> 2, canonical |-> "2"]
         [] text = "5" -> [value |-> 5, canonical |-> "5"]]

isStringLiteral(text) == text \in DOMAIN QuotedLiterals

unquoteAndUnescape(text) == QuotedLiterals[text]

valueHasPrimitiveType(text, primitive) ==
    CASE primitive = "bool" -> text \in {"true", "false"}
      [] primitive \in {"int32", "int64"} -> text \in DOMAIN IntegerLiterals
      [] primitive = "string" -> isStringLiteral(text)
      [] OTHER -> FALSE

literalValueToDenseJson(text, primitive) ==
    CASE primitive = "bool" -> JsonNumber(IF text = "true" THEN 1 ELSE 0)
      [] primitive = "int32" -> JsonNumber(IntegerLiterals[text].value)
      [] primitive = "int64" -> JsonString(IntegerLiterals[text].canonical)
      [] primitive = "string" -> JsonString(unquoteAndUnescape(text))

literalValueToIdentity(text, primitive) ==
    CASE primitive = "bool" -> IF text = "true" THEN "1" ELSE "0"
      [] primitive \in {"int32", "int64"} -> IntegerLiterals[text].canonical
      [] primitive = "string" -> unquoteAndUnescape(text)

\* Values (parseValue): a literal, an object with its entries in the order
\* written, an array.
ValueToken(text, position) == [text |-> text, position |-> position, part |-> "value"]

Literal(text, position) == [kind |-> "literal", token |-> ValueToken(text, position)]

Object(entries, position) ==
    [kind |-> "object", token |-> ValueToken("{", position), entries |-> entries]

Array(items, position) ==
    [kind |-> "array", token |-> ValueToken("[", position), items |-> items]

\* An entry of an object: the token of its name and its value.
Entry(name, value) ==
    [name |-> [text |-> name, position |-> value.token.position, part |-> "name"],
     value |-> value]

\* value.entries[name], record.nameToDeclaration[name]
lookup(entries, name) ==
    IF \E i \in 1..Len(entries) : entries[i].name.text = name
    THEN entries[CHOOSE i \in 1..Len(entries) : entries[i].name.text = name]
    ELSE Undefined

\* An array type with a key: the field path and the type of the key.
KeyedArr(item, path, keyType) ==
    [kind |-> "array", item |-> item,
     key |-> [path |-> path, keyType |-> keyType]]

\* validateKeyedItems: tryExtractKeyFromItem, from segment i of the path on.
RECURSIVE tryExtractKeyFromItem(_, _, _, _)
tryExtractKeyFromItem(value, path, i, errors) ==
    IF i > Len(path) THEN [key |-> value, errors |-> errors]
    ELSE IF value.kind = "literal" /\ path[i].name.text = "kind"
    THEN [key |-> value, errors |-> errors]
    ELSE IF value.kind # "object" THEN [key |-> Undefined, errors |-> errors]
    ELSE LET entry == lookup(value.entries, path[i].name.text)
         IN  IF entry = Undefined
             THEN [key |-> Undefined,
                   errors |-> Append(errors, [token |-> value.token,
                                              message |-> <<"Missing entry", path[i].name.text>>])]
             ELSE tryExtractKeyFromItem(entry.value, path, i + 1, errors)

\* keyIdentityToKeys after one more key (a Map in insertion order).
addKey(keyIdentityToKeys, keyIdentity, key) ==
    IF \E g \in 1..Len(keyIdentityToKeys) : keyIdentityToKeys[g].identity = keyIdentity
    THEN [g \in 1..Len(keyIdentityToKeys) |->
            IF keyIdentityToKeys[g].identity = keyIdentity
            THEN [keyIdentityToKeys[g] EXCEPT !.keys = Append(@, key)]
            ELSE keyIdentityToKeys[g]]
    ELSE Append(keyIdentityToKeys, [identity |-> keyIdentity, keys |-> <<key>>])

\* Mutant: the first key of a group of equal keys is not reported.
RECURSIVE duplicateKeyErrorsButFirst(_, _)
duplicateKeyErrorsButFirst(keyIdentityToKeys, g) ==
    IF g > Len(keyIdentityToKeys) THEN <<>>
    ELSE [k \in 1..(Len(keyIdentityToKeys[g].keys) - 1) |->
            [token |-> keyIdentityToKeys[g].keys[k + 1].token,
             message |-> <<"Duplicate key">>]]
           \o duplicateKeyErrorsButFirst(keyIdentityToKeys, g + 1)

\* validateKeyedItems: the loop that reports the keys of every identity that
\* has more than one.
RECURSIVE duplicateKeyErrors(_, _)
duplicateKeyErrors(keyIdentityToKeys, g) ==
    IF g > Len(keyIdentityToKeys) THEN <<>>
    ELSE (IF Len(keyIdentityToKeys[g].keys) <= 1 THEN <<>>
          ELSE [k \in 1..Len(keyIdentityToKeys[g].keys) |->
                  [token |-> keyIdentityToKeys[g].keys[k].token,
                   message |-> <<"Duplicate key">>]])
           \o duplicateKeyErrors(keyIdentityToKeys, g + 1)

\* validateKeyedItems: the loop over the items (from item i on) and the
\* report; the result is the error sink.
RECURSIVE validateKeyedItemsFrom(_, _, _, _, _)
validateKeyedItemsFrom(items, fieldPath, i, keyIdentityToKeys, errors) ==
    IF i > Len(items) THEN errors \o duplicateKeyErrors(keyIdentityToKeys, 1)
    ELSE LET extracted == tryExtractKeyFromItem(items[i], fieldPath.path, 1, errors)
             key == extracted.key
             keyToken == key.token.text
         IN  IF key = Undefined \/ key.kind # "literal" THEN extracted.errors
             ELSE IF fieldPath.keyType.kind = "primitive"
             THEN IF ~valueHasPrimitiveType(keyToken, fieldPath.keyType.primitive)
                  THEN validateKeyedItemsFrom(items, fieldPath, i + 1, keyIdentityToKeys,
                                              extracted.errors)
                  ELSE validateKeyedItemsFrom(
                         items, fieldPath, i + 1,
                         addKey(keyIdentityToKeys,
                                literalValueToIdentity(keyToken, fieldPath.keyType.primitive),
                                key),
                         extracted.errors)
             ELSE IF ~isStringLiteral(keyToken)
             THEN validateKeyedItemsFrom(items, fieldPath, i + 1, keyIdentityToKeys,
                                         extracted.errors)
             ELSE validateKeyedItemsFrom(
                    items, fieldPath, i + 1,
                    addKey(keyIdentityToKeys, unquoteAndUnescape(keyToken), key),
                    extracted.errors)

validateKeyedItems(items, fieldPath, errors) ==
    validateKeyedItemsFrom(items, fieldPath, 1, <<>>, errors)

\* !valueJson
falsy(valueJson) ==
    \/ valueJson.json = "null"
    \/ valueJson.json = "number" /\ valueJson.value = 0
    \/ valueJson.json = "string" /\ valueJson.value = ""

\* Mutant: the "0" of a 64-bit integer is not a default value.
hasDefaultValueButInt64(type, valueJson) ==
    IF type.kind = "optional" THEN valueJson = JsonNull
    ELSE \/ falsy(valueJson)
         \/ valueJson.json = "array" /\ valueJson.items = <<>>

\* structValueToDenseJson: hasDefaultValue
hasDefaultValue(type, valueJson) ==
    IF type.kind = "optional" THEN valueJson = JsonNull
    ELSE \/ falsy(valueJson)
         \/ valueJson.json = "array" /\ valueJson.items = <<>>
         \/ /\ type.kind = "primitive"
            /\ type.primitive \in {"int64", "uint64"}
            /\ valueJson.json = "string"
            /\ valueJson.value = "0"

\* structValueToDenseJson: the first loop, over the entries of the value.
RECURSIVE unknownEntryErrors(_, _, _)
unknownEntryErrors(entries, expectedStruct, i) ==
    IF i > Len(entries) THEN <<>>
    ELSE (IF lookup(expectedStruct.fields, entries[i].name.text) = Undefined
          THEN <<[token |-> entries[i].name,
                  message |-> <<"Field not found in struct", expectedStruct.name>>]>>
          ELSE <<>>)
           \o unknownEntryErrors(entries, expectedStruct, i + 1)

\* json.slice(0, arrayLen) after the missing slots were filled with "0";
\* `slots` maps the numbers assigned to their JSON.
denseSlice(slots, arrayLen) ==
    [n \in 1..arrayLen |->
       IF (n - 1) \in DOMAIN slots THEN slots[n - 1] ELSE JsonString("0")]

RECURSIVE valueToDenseJson(_, _, _, _)
RECURSIVE itemsToDenseJson(_, _, _, _, _, _, _)
RECURSIVE fieldsToDenseJson(_, _, _, _, _, _, _, _)
RECURSIVE enumValueToDenseJson(_, _, _, _)

\* ModuleSet.structValueToDenseJson
structValueToDenseJson(map, value, expectedStruct, errors) ==
    IF value.kind # "object"
    THEN [json |-> JsonUndefined,
          errors |-> Append(errors, [token |-> value.token, expected |-> "object"])]
    ELSE LET unknown == unknownEntryErrors(value.entries, expectedStruct, 1)
         IN  fieldsToDenseJson(map, value, expectedStruct, 1, <<>>, 0,
                               unknown = <<>>, errors \o unknown)

\* structValueToDenseJson: the loop over the fields of the struct (from
\* field i on) and the return.
fieldsToDenseJson(map, value, expectedStruct, i, slots, arrayLen, allGood, errors) ==
    IF i > Len(expectedStruct.fields)
    THEN [json |-> IF allGood THEN JsonArray(denseSlice(slots, arrayLen))
                   ELSE JsonUndefined,
          errors |-> errors]
    ELSE LET field == expectedStruct.fields[i]
             fieldEntry == lookup(value.entries, field.name.text)
         IN  IF field.type = NoType
             THEN fieldsToDenseJson(map, value, expectedStruct, i + 1, slots, arrayLen,
                                    FALSE, errors)
             ELSE IF fieldEntry = Undefined
             THEN fieldsToDenseJson(map, value, expectedStruct, i + 1, slots, arrayLen,
                                    FALSE,
                                    Append(errors, [token |-> value.token,
                                                    message |-> <<"Missing entry", field.name.text>>]))
             ELSE LET converted == valueToDenseJson(map, fieldEntry.value, field.type, errors)
                  IN  IF converted.json = JsonUndefined
                      THEN fieldsToDenseJson(map, value, expectedStruct, i + 1, slots,
                                             arrayLen, FALSE, converted.errors)
                      ELSE fieldsToDenseJson(
                             map, value, expectedStruct, i + 1,
                             [n \in DOMAIN slots \cup {field.number} |->
                                IF n = field.number THEN converted.json ELSE slots[n]],
                             IF hasDefaultValue(field.type, converted.json) THEN arrayLen
                             ELSE Max({arrayLen, field.number + 1}),
                             allGood, converted.errors)

\* ModuleSet.enumValueToDenseJson
enumValueToDenseJson(map, value, expectedEnum, errors) ==
    IF value.kind = "literal" /\ isStringLiteral(value.token.text)
    THEN LET field == lookup(expectedEnum.fields, unquoteAndUnescape(value.token.text))
         IN  IF field = Undefined
             THEN [json |-> JsonUndefined,
                   errors |-> Append(errors, [token |-> value.token,
                                              message |-> <<"Field not found in enum", expectedEnum.name>>])]
             ELSE IF field.type # NoType
             THEN [json |-> JsonUndefined,
                   errors |-> Append(errors, [token |-> value.token,
                                              message |-> <<"Refers to a value field">>])]
             ELSE [json |-> JsonNumber(field.number), errors |-> errors]
    ELSE IF value.kind = "object"
    THEN LET kindEntry == lookup(value.entries, "kind")
             enumValue == lookup(value.entries, "value")
             extraEntries == SelectSeq(value.entries,
                                       LAMBDA e : e.name.text \notin {"kind", "value"})
         IN  IF kindEntry = Undefined
             THEN [json |-> JsonUndefined,
                   errors |-> Append(errors, [token |-> value.token,
                                              message |-> <<"Missing entry", "kind">>])]
             ELSE IF \/ kindEntry.value.kind # "literal"
                     \/ ~isStringLiteral(kindEntry.value.token.text)
             THEN [json |-> JsonUndefined,
                   errors |-> Append(errors, [token |-> kindEntry.value.token,
                                              expected |-> "string"])]
             ELSE LET field == lookup(expectedEnum.fields,
                                      unquoteAndUnescape(kindEntry.value.token.text))
                  IN  IF field = Undefined
                      THEN [json |-> JsonUndefined,
                            errors |-> Append(errors,
                                              [token |-> kindEntry.value.token,
                                               message |-> <<"Field not found in enum", expectedEnum.name>>])]
                      ELSE IF field.type = NoType
                      THEN [json |-> JsonUndefined,
                            errors |-> Append(errors,
                                              [token |-> kindEntry.value.token,
                                               message |-> <<"Refers to a constant field">>])]
                      ELSE IF enumValue = Undefined
                      THEN [json |-> JsonUndefined,
                            errors |-> Append(errors,
                                              [token |-> value.token,
                                               message |-> <<"Missing entry", "value">>])]
                      ELSE LET converted == valueToDenseJson(map, enumValue.value,
                                                             field.type, errors)
                           IN  IF converted.json = JsonUndefined THEN converted
                               ELSE IF extraEntries # <<>>
                               THEN [json |-> JsonUndefined,
                                     errors |-> Append(converted.errors,
                                                       [token |-> extraEntries[1].name,
                                                        message |-> <<"Extraneous entry">>])]
                               ELSE [json |-> JsonArray(<<JsonNumber(field.number),
                                                          converted.json>>),
                                     errors |-> converted.errors]
    ELSE [json |-> JsonUndefined,
          errors |-> Append(errors, [token |-> value.token,
                                     expected |-> "string or object"])]

\* valueToDenseJson, case "array": the loop over the items (from item i on).
itemsToDenseJson(map, items, itemType, i, json, allGood, errors) ==
    IF i > Len(items) THEN [json |-> json, allGood |-> allGood, errors |-> errors]
    ELSE LET itemJson == valueToDenseJson(map, items[i], itemType, errors)
         IN  IF itemJson.json # JsonUndefined
             THEN itemsToDenseJson(map, items, itemType, i + 1,
                                   Append(json, itemJson.json), allGood, itemJson.errors)
             ELSE itemsToDenseJson(map, items, itemType, i + 1, json, FALSE,
                                   itemJson.errors)

\* ModuleSet.valueToDenseJson: the JSON (or undefined) and the error sink.
valueToDenseJson(map, value, expectedType, errors) ==
    CASE expectedType.kind = "optional" ->
           IF value.kind = "literal" /\ value.token.text = "null"
           THEN [json |-> JsonNull, errors |-> errors]
           ELSE valueToDenseJson(map, value, expectedType.other, errors)
      [] expectedType.kind = "array" ->
           IF value.kind # "array"
           THEN [json |-> JsonUndefined,
                 errors |-> Append(errors, [token |-> value.token, expected |-> "array"])]
           ELSE LET converted == itemsToDenseJson(map, value.items, expectedType.item, 1,
                                                  <<>>, TRUE, errors)
                IN  IF ~converted.allGood
                    THEN [json |-> JsonUndefined, errors |-> converted.errors]
                    ELSE [json |-> JsonArray(converted.json),
                          errors |->
                            IF "key" \in DOMAIN expectedType
                            THEN validateKeyedItems(value.items, expectedType.key,
                                                    converted.errors)
                            ELSE converted.errors]
      [] expectedType.kind = "record" ->
           IF expectedType.key \notin DOMAIN map
           THEN [json |-> JsonUndefined, errors |-> errors]
           ELSE IF map[expectedType.key].recordType = "struct"
           THEN structValueToDenseJson(map, value, map[expectedType.key], errors)
           ELSE enumValueToDenseJson(map, value, map[expectedType.key], errors)
      [] expectedType.kind = "primitive" ->
           IF \/ value.kind # "literal"
              \/ ~valueHasPrimitiveType(value.token.text, expectedType.primitive)
           THEN [json |-> JsonUndefined,
                 errors |-> Append(errors, [token |-> value.token,
                                            expected |-> expectedType.primitive])]
           ELSE [json |-> literalValueToDenseJson(value.token.text, expectedType.primitive),
                 errors |-> errors]

\* doParseAndResolve: the constants loop for one constant whose type resolved
\* (its arrays have valid keys, so validateArrayKeys registers nothing).
ResolveConstant ==
    /\ constant # Null
    /\ ~constant.resolved
    /\ LET converted == valueToDenseJson(mutableRecordMap, constant.value,
                                         constant.type, mutableErrors)
       IN  /\ constant' = [constant EXCEPT !.valueAsDenseJson = converted.json,
                                           !.resolved = TRUE]
           /\ mutableErrors' = converted.errors
    /\ UNCHANGED otherThanConstant

\* A field of a resolved record.
NamedField(name, number, type) == [name |-> [text |-> name], number |-> number, type |-> type]

\* The records of the module
\*   struct Struct { opt_a: int32? = 0; int: int32 = 1; removed 2; big: int64 = 3;
\*                   str: string = 4; ints: [int32] = 5; inner: Inner = 6; }
\*   struct Inner { x: int32; }
\*   enum Enum { A; B; c: string; }
\*   struct Item { key: string; n: int32; e: Enum; }
ConstantRecords ==
    <<[key |-> 1, name |-> "Struct", recordType |-> "struct",
       fields |-> <<NamedField("opt_a", 0, Opt(Prim("int32"))),
                    NamedField("int", 1, Prim("int32")),
                    NamedField("big", 3, Prim("int64")),
                    NamedField("str", 4, Prim("string")),
                    NamedField("ints", 5, Arr(Prim("int32"))),
                    NamedField("inner", 6, RecordRef(2, "struct", RefToken(1, 6)))>>],
      [key |-> 2, name |-> "Inner", recordType |-> "struct",
       fields |-> <<NamedField("x", 0, Prim("int32"))>>],
      [key |-> 3, name |-> "Enum", recordType |-> "enum",
       fields |-> <<NamedField("A", 1, NoType),
                    NamedField("B", 2, NoType),
                    NamedField("c", 3, Prim("string"))>>],
      [key |-> 4, name |-> "Item", recordType |-> "struct",
       fields |-> <<NamedField("key", 0, Prim("string")),
                    NamedField("n", 1, Prim("int32")),
                    NamedField("e", 2, RecordRef(3, "enum", RefToken(4, 3)))>>]>>

\* Where a token stands in the value of the constant: the item of the array
\* (0 outside), the entry of the object, the entry of the object inside it.
Position(item, entry, inner) == [item |-> item, entry |-> entry, inner |-> inner]

\* A constant as parseConstant leaves it, with its resolved type.
Constant(type, value) ==
    [type |-> type, value |-> value, valueAsDenseJson |-> JsonUndefined,
     resolved |-> FALSE]

\* const S: Struct = { opt_a: ..., int: ..., big: ..., str: ..., ints: ..., inner: {x: ...} };
StructConstants ==
    {Constant(RecordRef(1, "struct", RefToken(0, 0)),
              Object(<<Entry("opt_a", Literal(opt_a, Position(0, "opt_a", ""))),
                       Entry("int", Literal(int, Position(0, "int", ""))),
                       Entry("big", Literal(big, Position(0, "big", ""))),
                       Entry("str", Literal(str, Position(0, "str", ""))),
                       Entry("ints", Array([i \in 1..ints |->
                                              Literal("0", Position(i, "ints", ""))],
                                           Position(0, "ints", ""))),
                       Entry("inner", Object(<<Entry("x", Literal(x, Position(0, "inner", "x")))>>,
                                             Position(0, "inner", "")))>>,
                     Position(0, "", ""))) :
       opt_a \in {"null", "0", "5"},
       int \in {"0", "-0", "5", "'a'"},
       big \in {"0", "-0", "5"},
       str \in {"''", "'0'"},
       ints \in {0, 1},
       x \in {"0", "5"}}

\* The items of a keyed array value: { key: ..., n: ..., e: ... } with e the
\* name of a constant variant or { kind: 'c', value: 'v' }.
ItemChoices(i) ==
    {Object(<<Entry("key", Literal(key, Position(i, "key", ""))),
              Entry("n", Literal(n, Position(i, "n", ""))),
              Entry("e", IF e = "'c'"
                         THEN Object(<<Entry("kind", Literal(e, Position(i, "e", "kind"))),
                                       Entry("value", Literal("'v'", Position(i, "e", "value")))>>,
                                     Position(i, "e", ""))
                         ELSE Literal(e, Position(i, "e", "")))>>,
            Position(i, "", "")) :
       key \in {"'a'", "\"a\"", "'b'"},
       n \in {"1", "01", "'a'"},
       e \in {"'A'", "\"A\"", "'c'"}}

\* The key paths of [Item|key], [Item|n] and [Item|e.kind] as validateArrayKeys
\* resolves them.
KeyPaths ==
    {[path |-> <<[name |-> [text |-> "key"]]>>, keyType |-> Prim("string")],
     [path |-> <<[name |-> [text |-> "n"]]>>, keyType |-> Prim("int32")],
     [path |-> <<[name |-> [text |-> "e"]], [name |-> [text |-> "kind"]]>>,
      keyType |-> RecordRef(3, "enum", RefToken(4, 3))]}

\* const ITEMS: [Item|...] = [ ... ];
RECURSIVE ItemLists(_)
ItemLists(n) ==
    IF n = 0 THEN {<<>>}
    ELSE {Append(items, item) : items \in ItemLists(n - 1), item \in ItemChoices(n)}

KeyedArrayConstants(maxItems) ==
    {Constant(KeyedArr(RecordRef(4, "struct", RefToken(0, 0)),
                       fieldPath.path, fieldPath.keyType),
              Array(items, Position(0, "", ""))) :
       fieldPath \in KeyPaths,
       items \in UNION {ItemLists(n) : n \in 0..maxItems}}

InitConstant ==
    /\ constant \in StructConstants \cup KeyedArrayConstants(MaxItems)
    /\ mutableRecordMap = ConstantRecords
    /\ mutableErrors = <<>>
    /\ files = <<>>
    /\ modules = <<>>
    /\ mutableResolvedModules = <<>>
    /\ calls = <<>>
    /\ cachedAtCall = FALSE
    /\ inProgressSet = {}
    /\ resolutionLog = <<>>
    /\ IdleCompat
    /\ IdleResolver
    /\ IdleParser
    /\ IdleRuntime

NextConstant == ResolveConstant

SpecConstant == InitConstant /\ [][NextConstant]_vars

----------------------------------------------------------------------------
(* TokenIterator and parseDeclarations (parser.ts), on token texts *)

\* Number of tokens of a module before the token with the empty text that
\* ends every token sequence.
MaxTokens == 5

\* The token texts the modules are made of. None of them is ':', '=', '(',
\* 'import', 'method' or 'const': the statements parsed are records, fields
\* of enums without a type and `removed` declarations.
TokenTexts == {"enum", "A", "UNKNOWN", "{", "}", ";", "removed", "///"}

\* text.startsWith("///")
isDocComment(text) == text = "///"

\* An entry of the array given to expectThenNext: a text or a predicate.
Text(text) == [text |-> text]

\* TOKEN_IS_IDENTIFIER, matching /^\w/.
TOKEN_IS_IDENTIFIER == [predicate |-> "identifier"]

\* TOKEN_IS_POSITIVE_INT, matching /^[0-9]+$/.
TOKEN_IS_POSITIVE_INT == [predicate |-> "positive integer"]

matches(e, text) ==
    IF e = Null THEN FALSE
    ELSE IF e = TOKEN_IS_IDENTIFIER
    THEN text \in {"enum", "struct", "removed", "import", "method", "const",
                   "A", "UNKNOWN", "1"}
    ELSE IF e = TOKEN_IS_POSITIVE_INT THEN text \in {"1"}
    ELSE text = e.text

\* TokenIterator.current, previous and next(), on the iterator
\* [tokens, tokenIndex, errors, iterations]; tokenIndex counts from 0.
current(it) == it.tokens[it.tokenIndex + 1]

previous(it) == it.tokens[it.tokenIndex]

next(it) == [it EXCEPT !.tokenIndex = @ + 1]

pushError(it, error) == [it EXCEPT !.errors = Append(@, error)]

RECURSIVE skipDocComments(_)
\* The first loop of expectThenNext.
skipDocComments(it) ==
    IF isDocComment(current(it))
    THEN skipDocComments(next(pushError(it,
           [token |-> it.tokenIndex,
            message |-> "Doc comments can only precede declarations"])))
    ELSE it

\* expectThenNext after its first loop: the iterator after the call, the
\* index of the first entry matching the current token or -1, and the
\* current token.
matchFirst(skipped, expected, cases) ==
    IF cases # {}
    THEN [it |-> next(skipped),
          case |-> (CHOOSE i \in cases : \A j \in cases : i <= j) - 1,
          token |-> skipped.tokenIndex]
    ELSE [it |-> pushError(skipped, [token |-> skipped.tokenIndex,
                                     expected |-> expected]),
          case |-> -1,
          token |-> skipped.tokenIndex]

expectAt(skipped, expected) ==
    matchFirst(skipped, expected,
               {i \in 1..Len(expected) : matches(expected[i], current(skipped))})

\* TokenIterator.expectThenNext.
expectThenNext(it, expected) == expectAt(skipDocComments(it), expected)

RECURSIVE parseDocumentation(_)
\* parseDocumentation: the doc comments before a declaration are consumed.
parseDocumentation(it) ==
    IF isDocComment(current(it)) THEN parseDocumentation(next(it)) ELSE it

\* What a parse function returns: the iterator and the declaration or Null.
Outcome(it, declaration) == [it |-> it, declaration |-> declaration]

uint32Of(match) ==
    IF match.case < 0 THEN [it |-> match.it, number |-> -1]
    ELSE [it |-> match.it, number |-> 1]

\* parseUint32: the number, or -1.
parseUint32(it) == uint32Of(expectThenNext(it, <<TOKEN_IS_POSITIVE_INT>>))

RECURSIVE parseRemovedFrom(_, _, _, _)
RECURSIVE removedMatched(_, _, _)

\* The loop of parseRemoved, from the state `expect`.
parseRemovedFrom(it, expect, lowerBound, numbers) ==
    removedMatched(
      expectThenNext(it,
        <<IF expect \in {",", ".."} THEN Text(",") ELSE Null,
          IF expect \in {"?", "0", "1"} THEN TOKEN_IS_POSITIVE_INT ELSE Null,
          IF expect \in {"?", ",", ".."} THEN Text(";") ELSE Null,
          IF expect = ".." THEN Text("..") ELSE Null>>),
      lowerBound, numbers)

\* The switch of the loop of parseRemoved and the check after the loop.
removedMatched(match, lowerBound, numbers) ==
    CASE match.case = 0 -> parseRemovedFrom(match.it, "0", lowerBound, numbers)
      [] match.case = 1 ->
           IF lowerBound < 0
           THEN parseRemovedFrom(match.it, "..", lowerBound, Append(numbers, 1))
           ELSE parseRemovedFrom(
                  IF 1 <= lowerBound
                  THEN pushError(match.it,
                         [token |-> match.token,
                          message |-> "Upper bound must be greater than lower bound"])
                  ELSE match.it,
                  ",", -1,
                  numbers \o [n \in 1..(2 - lowerBound) |-> lowerBound + n - 1])
      [] match.case = 2 ->
           IF \E m \in 1..Len(numbers) : \E n \in 1..Len(numbers) :
                m # n /\ numbers[m] = numbers[n]
           THEN Outcome(pushError(match.it, [token |-> match.token,
                                             message |-> "Duplicate field number"]),
                        Null)
           ELSE Outcome(match.it, [kind |-> "removed", numbers |-> numbers])
      [] match.case = 3 ->
           parseRemovedFrom(match.it, "1", numbers[Len(numbers)],
                            SubSeq(numbers, 1, Len(numbers) - 1))
      [] match.case = -1 -> Outcome(match.it, Null)

\* parseRemoved; -1 stands for the undefined lowerBound.
parseRemoved(it) == parseRemovedFrom(it, "?", -1, <<>>)

RECURSIVE parseFieldFrom(_, _, _, _)
RECURSIVE fieldMatched(_, _, _, _)
RECURSIVE fieldNumbered(_, _, _)

\* The loop of parseField for a field without a type: ':' is not among the
\* texts, so the case of a type is not taken.
parseFieldFrom(it, name, number, recordType) ==
    fieldMatched(
      expectThenNext(it,
        <<IF number < 0 THEN Text(":") ELSE Null,
          IF number < 0 /\ recordType = "enum" THEN Text("=") ELSE Null,
          IF recordType = "enum" THEN Text(";") ELSE Null>>),
      name, number, recordType)

fieldNumbered(n, name, recordType) ==
    IF n.number < 0 THEN Outcome(n.it, Null)
    ELSE parseFieldFrom(n.it, name, n.number, recordType)

\* The switch of the loop of parseField.
fieldMatched(match, name, number, recordType) ==
    CASE match.case = 1 -> fieldNumbered(parseUint32(match.it), name, recordType)
      [] match.case = 2 ->
           IF recordType = "enum" /\ match.it.tokens[name + 1] = "UNKNOWN"
           THEN Outcome(pushError(match.it,
                          [token |-> name,
                           message |-> "Cannot name field of enum: UNKNOWN"]),
                        Null)
           ELSE Outcome(match.it, [kind |-> "field", name |-> name,
                                   number |-> number])
      [] match.case = -1 -> Outcome(match.it, Null)

parseField(it, name, recordType) == parseFieldFrom(it, name, -1, recordType)

\* isEndToken and isLastToken of parseDeclarations.
isEndToken(t, parentNode) == t = "" \/ (parentNode # "module" /\ t = "}")

isLastToken(t) == t = "}" \/ t = ";"

\* The nesting level after a token.
nest(nestedLevel, token) ==
    IF token = "{" THEN nestedLevel + 1
    ELSE IF token = "}" THEN nestedLevel - 1
    ELSE nestedLevel

RECURSIVE recoverIgnoringDepth(_, _)
recoverIgnoringDepth(it, nestedLevel) ==
    IF current(it) = "" THEN it
    ELSE IF isLastToken(current(it)) THEN next(it)
    ELSE recoverIgnoringDepth(next(it), nest(nestedLevel, current(it)))

RECURSIVE recover(_, _)
\* The inner loop of parseDeclarations, which skips the tokens of an invalid
\* statement.
recover(it, nestedLevel) ==
    IF current(it) = "" THEN it
    ELSE IF nest(nestedLevel, current(it)) <= 0 /\ isLastToken(current(it)) THEN next(it)
    ELSE recover(next(it), nest(nestedLevel, current(it)))

\* An iteration of the loop of parseDeclarations has ended; `recovery` is the
\* index the inner loop started from, or -1.
iterated(it, parentNode, startIndex, declaration, recovery) ==
    [it EXCEPT !.iterations =
       Append(@, [parentNode |-> parentNode,
                  startIndex |-> startIndex,
                  endIndex |-> it.tokenIndex,
                  declaration |-> declaration,
                  recovery |-> recovery])]

RECURSIVE parseDeclarations(_, _, _)
RECURSIVE parseDeclaration(_, _)
RECURSIVE declarationMatched(_, _)
RECURSIVE parseRecordTokens(_, _)
RECURSIVE recordNamed(_, _)
RECURSIVE recordNumbered(_, _, _)
RECURSIVE recordIdClosed(_, _, _)
RECURSIVE recordOpened(_, _, _)
RECURSIVE recordClosed(_, _, _)
RECURSIVE declarationParsed(_, _, _, _)
RECURSIVE statementSkipped(_, _, _, _, _)

\* parseRecord, from the token after 'struct' or 'enum': the name is read.
parseRecordTokens(it, recordType) ==
    recordNamed(expectThenNext(it, <<TOKEN_IS_IDENTIFIER>>), recordType)

\* parseRecord after the name: the stable id in parentheses, if any.
recordNamed(nameMatch, recordType) ==
    IF nameMatch.case < 0 THEN Outcome(nameMatch.it, Null)
    ELSE IF current(nameMatch.it) = "("
    THEN recordNumbered(parseUint32(next(nameMatch.it)), nameMatch.token, recordType)
    ELSE recordOpened(expectThenNext(nameMatch.it, <<Text("{")>>),
                      nameMatch.token, recordType)

recordNumbered(stableId, name, recordType) ==
    IF stableId.number < 0 THEN Outcome(stableId.it, Null)
    ELSE recordIdClosed(expectThenNext(stableId.it, <<Text(")")>>), name, recordType)

recordIdClosed(close, name, recordType) ==
    IF close.case < 0 THEN Outcome(close.it, Null)
    ELSE recordOpened(expectThenNext(close.it, <<Text("{")>>), name, recordType)

\* parseRecord after '{': the declarations of the record, then '}'.
recordOpened(open, name, recordType) ==
    IF open.case < 0 THEN Outcome(open.it, Null)
    ELSE recordClosed(parseDeclarations(open.it, recordType, <<>>), name, recordType)

recordClosed(declarations, name, recordType) ==
    Outcome(expectThenNext(declarations.it, <<Text("}")>>).it,
            [kind |-> "record", recordType |-> recordType, name |-> name,
             declarations |-> declarations.result])

\* parseDeclaration.
parseDeclaration(it, parentNode) ==
    declarationMatched(
      expectThenNext(parseDocumentation(it),
        <<Text("struct"),
          Text("enum"),
          IF parentNode = "module" THEN Null ELSE Text("removed"),
          IF parentNode = "module" THEN Null ELSE TOKEN_IS_IDENTIFIER,
          IF parentNode = "module" THEN Text("import") ELSE Null,
          IF parentNode = "module" THEN Text("method") ELSE Null,
          IF parentNode = "module" THEN Text("const") ELSE Null>>),
      parentNode)

\* The switch of parseDeclaration.
declarationMatched(match, parentNode) ==
    CASE match.case = 0 -> parseRecordTokens(match.it, "struct")
      [] match.case = 1 -> parseRecordTokens(match.it, "enum")
      [] match.case = 2 -> parseRemoved(match.it)
      [] match.case = 3 -> parseField(match.it, match.token, parentNode)
      [] match.case = -1 -> Outcome(match.it, Null)

\* parseDeclarations: the iterator after the call and the declarations.
parseDeclarations(it, parentNode, result) ==
    IF isEndToken(current(it), parentNode) THEN [it |-> it, result |-> result]
    ELSE declarationParsed(parseDeclaration(it, parentNode), it.tokenIndex,
                           parentNode, result)

\* The body of the loop of parseDeclarations after parseDeclaration.
declarationParsed(parsed, startIndex, parentNode, result) ==
    IF parsed.declaration # Null
    THEN parseDeclarations(
           iterated(parsed.it, parentNode, startIndex, parsed.declaration.kind, -1),
           parentNode, Append(result, parsed.declaration))
    ELSE statementSkipped(
           IF parsed.it.tokenIndex = startIndex THEN next(parsed.it) ELSE parsed.it,
           parsed.it.tokenIndex = startIndex, startIndex, parentNode, result)

\* The recovery from an invalid statement.
statementSkipped(it, noTokenWasConsumed, startIndex, parentNode, result) ==
    IF noTokenWasConsumed /\ isLastToken(previous(it))
    THEN parseDeclarations(iterated(it, parentNode, startIndex, "null", -1),
                           parentNode, result)
    ELSE IF noTokenWasConsumed \/ (current(it) # "" /\ ~isLastToken(previous(it)))
    THEN parseDeclarations(
           iterated(recover(it, 0), parentNode, startIndex, "null", it.tokenIndex),
           parentNode, result)
    ELSE parseDeclarations(iterated(it, parentNode, startIndex, "null", -1),
                           parentNode, result)

\* parseModule calls parseDeclarations(it, "module") on a new TokenIterator.
ParseDeclarations ==
    /\ moduleDeclarations.kind = "null"
    /\ moduleTokens # <<>>
    /\ LET done == parseDeclarations([tokens |-> moduleTokens, tokenIndex |-> tokenIndex,
                                      errors |-> sinkErrors, iterations |-> iterations],
                                     "module", <<>>)
       IN  /\ tokenIndex' = done.it.tokenIndex
           /\ sinkErrors' = done.it.errors
           /\ iterations' = done.it.iterations
           /\ moduleDeclarations' = [kind |-> "declarations", list |-> done.result]
    /\ UNCHANGED moduleTokens
    /\ UNCHANGED otherThanIterator

\* Every sequence of up to maxTokens texts, followed by the token with the
\* empty text that the tokenizer ends every sequence with.
TokenSequences(maxTokens) ==
    {Append(texts, "") : texts \in UNION {[1..n -> TokenTexts] : n \in 0..maxTokens}}

InitIterator ==
    /\ moduleTokens \in TokenSequences(MaxTokens)
    /\ tokenIndex = 0
    /\ sinkErrors = <<>>
    /\ iterations = <<>>
    /\ moduleDeclarations = Null
    /\ IdleCompat
    /\ IdleModuleSet
    /\ IdleResolver
    /\ IdleParser
    /\ IdleConstant
    /\ IdleWatch
    /\ IdleWorkspace

NextIterator == ParseDeclarations

SpecIterator == InitIterator /\ [][NextIterator]_vars

----------------------------------------------------------------------------
(* WatchModeMainLoop (compiler.ts) *)

\* Number of events the Watcher delivers.
MaxEvents == 6

\* The paths of the events: targetPath, and targetPathNext of a rename
\* ("" stands for undefined).
TargetPaths == {"a.soia", "a.txt"}

TargetPathsNext == {"", "b.soia", "b.txt"}

\* path.endsWith(".soia")
endsWithSoia(path) == path \in {"a.soia", "b.soia"}

\* The fields of the WatchModeMainLoop and the timeouts of the runtime.
WatchMode ==
    [generating |-> generating, mustRegenerate |-> mustRegenerate,
     timeoutId |-> timeoutId, timeouts |-> timeouts, timeoutsSet |-> timeoutsSet]

\* globalThis.clearTimeout(id)
clearTimeout(pending, id) == {t \in pending : t.id # id}

triggerGenerationAlways(w, by) ==
    [w EXCEPT !.timeouts = clearTimeout(@, w.timeoutId)
                             \cup {[id |-> w.timeoutsSet + 1, by |-> by]},
              !.timeoutId = w.timeoutsSet + 1,
              !.timeoutsSet = @ + 1]

\* triggerGeneration(), called by the Watcher's listener (by = "event") or by
\* the finally block of generate() (by = "finally"). 0 stands for the
\* undefined timeoutId.
triggerGeneration(w, by) ==
    IF w.generating THEN [w EXCEPT !.mustRegenerate = TRUE]
    ELSE [w EXCEPT !.timeouts = (IF w.timeoutId # 0 THEN clearTimeout(@, w.timeoutId)
                                 ELSE @)
                                  \cup {[id |-> w.timeoutsSet + 1, by |-> by]},
                   !.timeoutId = w.timeoutsSet + 1,
                   !.timeoutsSet = @ + 1]

\* generate() up to its first await.
generate(w) ==
    [w EXCEPT !.generating = TRUE, !.timeoutId = 0, !.mustRegenerate = FALSE]

finallyForgetting(w) == [w EXCEPT !.generating = FALSE]

\* The finally block of generate().
finally(w) ==
    IF w.mustRegenerate
    THEN triggerGeneration([w EXCEPT !.generating = FALSE], "finally")
    ELSE [w EXCEPT !.generating = FALSE]

SetWatchMode(w) ==
    /\ generating' = w.generating
    /\ mustRegenerate' = w.mustRegenerate
    /\ timeoutId' = w.timeoutId
    /\ timeouts' = w.timeouts
    /\ timeoutsSet' = w.timeoutsSet

\* start() calls generate(), which runs up to its first await.
Start ==
    /\ ~watcher
    /\ generateRuns = <<>>
    /\ ~generating
    /\ changeEvents = 0
    /\ timeoutsSet = 0
    /\ unserved = FALSE
    /\ SetWatchMode(generate(WatchMode))
    /\ generateRuns' = <<[stage |-> "collectModules", caller |-> "start", by |-> "start"]>>
    /\ UNCHANGED <<watcher, changeEvents, unserved>>
    /\ UNCHANGED otherThanWatch

\* The Watcher delivers an event to the listener start() installed.
ChangeEvent ==
    \E targetPath \in TargetPaths : \E targetPathNext \in TargetPathsNext :
      /\ watcher
      /\ changeEvents < MaxEvents
      /\ changeEvents' = changeEvents + 1
      /\ IF endsWithSoia(targetPath)
              \/ (targetPathNext # "" /\ endsWithSoia(targetPathNext))
         THEN /\ SetWatchMode(triggerGeneration(WatchMode, "event"))
              /\ unserved' = TRUE
         ELSE /\ SetWatchMode(WatchMode)
              /\ unserved' = unserved
      /\ UNCHANGED <<generateRuns, watcher>>
      /\ UNCHANGED otherThanWatch

\* A timeout set by triggerGeneration fires: its callback calls generate(),
\* which runs up to its first await.
TimeoutFires ==
    \E timeout \in timeouts :
      /\ SetWatchMode(generate([WatchMode EXCEPT !.timeouts = @ \ {timeout}]))
      /\ generateRuns' = Append(generateRuns, [stage |-> "collectModules",
                                               caller |-> "timeout",
                                               by |-> timeout.by])
      /\ unserved' = FALSE
      /\ UNCHANGED <<watcher, changeEvents>>
      /\ UNCHANGED otherThanWatch

\* The generate() run r leaves the try block (errors rendered, files written
\* or an exception thrown) and its finally block runs; start(), when it
\* awaited this run and the run did not throw, then installs the Watcher.
Finish(r, threw) ==
    /\ SetWatchMode(finally(WatchMode))
    /\ generateRuns' = [i \in 1..(Len(generateRuns) - 1) |->
                          IF i < r THEN generateRuns[i] ELSE generateRuns[i + 1]]
    /\ watcher' = (watcher \/ (generateRuns[r].caller = "start" /\ ~threw))
    /\ UNCHANGED <<changeEvents, unserved>>
    /\ UNCHANGED otherThanWatch

\* collectModules of the generate() run r returns or throws.
CollectModulesReturns ==
    \E r \in 1..Len(generateRuns) : \E outcome \in {"errors", "modules", "throws"} :
      /\ generateRuns[r].stage = "collectModules"
      /\ IF outcome = "modules"
         THEN /\ generateRuns' = [generateRuns EXCEPT ![r].stage = "doGenerate"]
              /\ UNCHANGED watchVarsButRuns
              /\ UNCHANGED otherThanWatch
         ELSE Finish(r, outcome = "throws")

\* doGenerate of the generate() run r returns.
DoGenerateReturns ==
    \E r \in 1..Len(generateRuns) :
      /\ generateRuns[r].stage = "doGenerate"
      /\ Finish(r, FALSE)

InitWatch ==
    /\ IdleWatch
    /\ IdleCompat
    /\ IdleModuleSet
    /\ IdleResolver
    /\ IdleParser
    /\ IdleConstant
    /\ IdleIterator
    /\ IdleWorkspace

NextWatch == Start \/ ChangeEvent \/ TimeoutFires \/ CollectModulesReturns \/ DoGenerateReturns

SpecWatch == InitWatch /\ [][NextWatch]_vars

\* The events stop (MaxEvents), the pending timeouts fire and each generation
\* finishes.
SpecWatchFair ==
    /\ InitWatch
    /\ [][NextWatch]_vars
    /\ WF_vars(TimeoutFires)
    /\ WF_vars(CollectModulesReturns)
    /\ WF_vars(DoGenerateReturns)

----------------------------------------------------------------------------
(* Workspace of the language server (language_server.ts) *)

\* Number of promises the Workspace creates (in scheduleResolution and in
\* resolutionDone).
MaxPromises == 4

\* The module paths of the workspace.
WorkspacePaths == {"a.soia", "b.soia"}

\* The module bundles added: modules without imports and without records,
\* whose syntax tree has no error or one error.
ModuleBundles ==
    {[astTree |-> [errors |-> errors], errors |-> <<>>] :
       errors \in {<<>>, <<[token |-> 0, expected |-> "identifier"]>>}}

\* errorToDiagnostic
errorToDiagnostic(error) ==
    [range |-> [start |-> error.token, end |-> error.token],
     message |-> "expected: identifier"]

\* The fields of the Workspace, the pending timeouts and the promises.
TheWorkspace ==
    [modules |-> workspaceModules, scheduledResolution |-> scheduledResolution,
     timeouts |-> nodeTimeouts, promises |-> promises]

\* new Promise(executor): an executor that throws rejects the promise.
newPromise(ws, executorThrows) ==
    [ws EXCEPT !.promises = Append(@, IF executorThrows THEN "rejected" ELSE "pending")]

\* scheduleResolution(). The executor of the promise assigns to
\* scheduledResolution.callback while the object literal that initializes
\* scheduledResolution is still being evaluated: the binding is not
\* initialized (a ReferenceError; a TypeError on undefined when `const` is
\* compiled to `var`), the executor throws, and the callback stays the
\* function that throws "callback not set".
scheduleResolution(ws) ==
    LET cleared == IF ws.scheduledResolution # Null
                   THEN ws.timeouts \ {ws.scheduledResolution.timeout}
                   ELSE ws.timeouts
        created == newPromise(ws, TRUE)
        id == Len(created.promises)
    IN  [created EXCEPT !.timeouts = cleared \cup {id},
                        !.scheduledResolution =
                           [kind |-> "scheduled", timeout |-> id, promise |-> id,
                            callback |-> "callback not set"]]

\* Calling scheduledResolution.callback.
callback(ws) ==
    IF ws.scheduledResolution.callback = "resolve"
    THEN [ws EXCEPT !.promises[ws.scheduledResolution.promise] =
                       IF @ = "pending" THEN "fulfilled" ELSE @]
    ELSE ws

\* Workspace.resolve(): every module bundle gets the errors of its module.
Workspace_resolve(ws) ==
    LET resolved ==
            [ws EXCEPT !.modules =
               [p \in DOMAIN ws.modules |->
                  [ws.modules[p] EXCEPT !.errors =
                     [e \in 1..Len(ws.modules[p].astTree.errors) |->
                        errorToDiagnostic(ws.modules[p].astTree.errors[e])]]]]
    IN  IF resolved.scheduledResolution # Null THEN callback(resolved) ELSE resolved

SetWorkspace(ws) ==
    /\ workspaceModules' = ws.modules
    /\ scheduledResolution' = ws.scheduledResolution
    /\ nodeTimeouts' = ws.timeouts
    /\ promises' = ws.promises

\* Workspace.addModule for a bundle that is in no workspace.
AddModule ==
    \E modulePath \in WorkspacePaths : \E moduleBundle \in ModuleBundles :
      /\ Len(promises) < MaxPromises
      /\ SetWorkspace(scheduleResolution(
           [TheWorkspace EXCEPT !.modules =
              [p \in DOMAIN workspaceModules \cup {modulePath} |->
                 IF p = modulePath THEN moduleBundle ELSE workspaceModules[p]]]))
      /\ UNCHANGED obtained
      /\ UNCHANGED otherThanWorkspace

\* Workspace.removeModule for a bundle of the workspace.
RemoveModule ==
    \E modulePath \in DOMAIN workspaceModules :
      /\ Len(promises) < MaxPromises
      /\ SetWorkspace(scheduleResolution(
           [TheWorkspace EXCEPT !.modules =
              [p \in DOMAIN workspaceModules \ {modulePath} |-> workspaceModules[p]]]))
      /\ UNCHANGED obtained
      /\ UNCHANGED otherThanWorkspace

\* A caller reads resolutionDone.
ResolutionDone ==
    IF scheduledResolution # Null
    THEN /\ obtained' = obtained \cup {[promise |-> scheduledResolution.promise,
                                        scheduled |-> TRUE]}
         /\ UNCHANGED <<workspaceModules, scheduledResolution, nodeTimeouts, promises>>
         /\ UNCHANGED otherThanWorkspace
    ELSE /\ Len(promises) < MaxPromises
         /\ promises' = Append(promises, "fulfilled")
         /\ obtained' = obtained \cup {[promise |-> Len(promises) + 1,
                                        scheduled |-> FALSE]}
         /\ UNCHANGED <<workspaceModules, scheduledResolution, nodeTimeouts>>
         /\ UNCHANGED otherThanWorkspace

\* The timeout of scheduleResolution fires: its callback clears
\* scheduledResolution and calls resolve().
ResolutionTimeoutFires ==
    \E timeout \in nodeTimeouts :
      /\ SetWorkspace(Workspace_resolve([TheWorkspace EXCEPT !.timeouts = @ \ {timeout},
                                                   !.scheduledResolution = Null]))
      /\ UNCHANGED obtained
      /\ UNCHANGED otherThanWorkspace

InitWorkspace ==
    /\ IdleWorkspace
    /\ IdleCompat
    /\ IdleModuleSet
    /\ IdleResolver
    /\ IdleParser
    /\ IdleConstant
    /\ IdleIterator
    /\ IdleWatch

NextWorkspace == AddModule \/ RemoveModule \/ ResolutionDone \/ ResolutionTimeoutFires

\* No further scheduleResolution call occurs in the end (MaxPromises) and the
\* pending timeout fires.
SpecWorkspace ==
    InitWorkspace /\ [][NextWorkspace]_vars /\ WF_vars(ResolutionTimeoutFires)

----------------------------------------------------------------------------
(* Properties of checkBackwardCompatibility *)

Checked == phase = "checked"

Changes == SeqToSet(breakingChanges)

IllegalTypeChanges == {c \in Changes : c.kind = "illegal-type-change"}

fieldTokens(record) == {record.fields[i].name : i \in 1..Len(record.fields)}

\* The widening table as the specification states it.
WideningTable ==
    [p \in Primitives |->
       CASE p = "bool" -> {"bool", "int32", "int64", "uint64", "float32", "float64"}
         [] p = "int32" -> {"int32", "int64", "uint64", "float32", "float64"}
         [] p = "int64" -> {"int64", "float32", "float64"}
         [] p = "uint64" -> {"uint64", "float32", "float64"}
         [] p = "float32" -> {"float32", "float64"}
         [] p = "float64" -> {"float32", "float64"}
         [] OTHER -> {p}]

\* The pairs whose fields checkRecord went on to compare.
SameKind(pair) ==
    before.recordMap[pair[1]].recordType = after.recordMap[pair[2]].recordType

Shrinks(pair) ==
    after.recordMap[pair[2]].numSlotsInclRemovedNumbers
      < before.recordMap[pair[1]].numSlotsInclRemovedNumbers

FieldComparedPairs == {pair \in seenRecordKeys : SameKind(pair) /\ ~Shrinks(pair)}

\* Two types with the same array/optional structure around primitive leaves.
PrimitiveLeafPair(tb, ta) ==
    /\ tb # NoType
    /\ ta # NoType
    /\ leafOf(tb).kind = "primitive"
    /\ leafOf(ta).kind = "primitive"
    /\ tb = replaceLeaf(ta, leafOf(tb))

Widens(tb, ta) == leafOf(ta).primitive \in WideningTable[leafOf(tb).primitive]

LeafTypes(tb, ta) == [before |-> leafOf(tb), after |-> leafOf(ta)]

CompatibleEditKinds == {"rename", "widen", "add", "removed"}

\* C2: when `after` comes from `before` by renaming, widening primitive
\* types, adding fields, variants or methods with fresh numbers and adding
\* `removed` markers, the check returns an empty list (record A of the
\* snapshot is recursive).
C2_CompatibleEvolution ==
    (Checked /\ edits \subseteq CompatibleEditKinds) => breakingChanges = <<>>

\* Two different kinds of compatible edits, one of them on the recursive
\* record A, have been checked.
C2_Witness ==
    /\ Checked
    /\ edits \subseteq CompatibleEditKinds
    /\ Cardinality(edits) >= 2
    /\ <<"record", 1>> \in touched
    /\ <<1, 1>> \in seenRecordKeys

StructPair(pair) ==
    /\ before.recordMap[pair[1]].recordType = "struct"
    /\ after.recordMap[pair[2]].recordType = "struct"

ShrunkPairs == {pair \in seenRecordKeys : StructPair(pair) /\ Shrinks(pair)}

MissingSlotsOfPair(pair) ==
    {i \in 1..Len(breakingChanges) :
       /\ breakingChanges[i].kind = "missing-slots"
       /\ breakingChanges[i].record.before.key = pair[1]
       /\ breakingChanges[i].record.after.key = pair[2]}

\* A change that comes from comparing the fields of the pair.
DerivedFromFields(c, pair) ==
    \/ /\ c.kind \in {"removed-number-reintroduced", "missing-variant",
                      "variant-kind-change"}
       /\ c.record.before.key = pair[1]
       /\ c.record.after.key = pair[2]
    \/ /\ c.kind = "illegal-type-change"
       /\ getTokenForExpression(c.expression.before)
            \in fieldTokens(before.recordMap[pair[1]])
       /\ getTokenForExpression(c.expression.after)
            \in fieldTokens(after.recordMap[pair[2]])

\* C5: every compared pair of structs whose slot count shrinks has exactly
\* one missing-slots change of its own, with the range [after count, before
\* count), and no change derived from its fields.
C5_ExactlyOneMissingSlots ==
    Checked =>
      \A pair \in ShrunkPairs :
        /\ Cardinality(MissingSlotsOfPair(pair)) = 1
        /\ \A i \in MissingSlotsOfPair(pair) :
             /\ breakingChanges[i].missingRangeStart
                  = after.recordMap[pair[2]].numSlotsInclRemovedNumbers
             /\ breakingChanges[i].missingRangeEnd
                  = before.recordMap[pair[1]].numSlotsInclRemovedNumbers
        /\ \A c \in Changes : ~DerivedFromFields(c, pair)

\* Record keys referenced by a type.
recordRefs(type) ==
    IF type # NoType /\ leafOf(type).kind = "record" THEN {leafOf(type).key} ELSE {}

RECURSIVE refClosure(_, _)
refClosure(moduleSet, keys) ==
    LET more == keys \cup
                 UNION {UNION {recordRefs(moduleSet.recordMap[k].fields[i].type) :
                                 i \in 1..Len(moduleSet.recordMap[k].fields)} : k \in keys}
    IN  IF more = keys THEN keys ELSE refClosure(moduleSet, more)

NumberedRecords(moduleSet) ==
    {k \in DOMAIN moduleSet.recordMap : moduleSet.recordMap[k].recordNumber # NoNumber}

ExplicitMethods(moduleSet) ==
    {m \in 1..Len(moduleSet.methods) : moduleSet.methods[m].hasExplicitNumber}

\* The records of `before` that the check can reach: the numbered ones, the
\* ones in the types of explicitly numbered methods, and the ones their
\* fields refer to.
ReachableBefore ==
    refClosure(before,
               NumberedRecords(before)
                 \cup UNION {recordRefs(before.methods[m].requestType)
                               \cup recordRefs(before.methods[m].responseType) :
                             m \in ExplicitMethods(before)})

RECURSIVE rootOf(_)
rootOf(expression) ==
    CASE expression.kind = "item" -> rootOf(expression.arrayExpression)
      [] expression.kind = "optional-value" -> rootOf(expression.optionalExpression)
      [] expression.kind = "property" -> rootOf(expression.structExpression)
      [] expression.kind = "as-variant" -> rootOf(expression.enumExpression)
      [] OTHER -> expression

expressionOf(c) ==
    CASE c.kind = "illegal-type-change" -> c.expression
      [] c.kind \in {"missing-slots", "record-kind-change",
                     "removed-number-reintroduced"} -> c.recordExpression
      [] c.kind \in {"missing-variant", "variant-kind-change"} -> c.enumEpression

\* The change starts from a numbered record or an explicitly numbered method
\* of `before`.
RootedAtNumbered(c) ==
    CASE c.kind = "missing-record" -> c.recordNumber # NoNumber
      [] c.kind = "missing-method" -> c.method.hasExplicitNumber
      [] OTHER ->
           LET root == rootOf(expressionOf(c).before)
           IN  IF root.kind = "record"
               THEN \E k \in NumberedRecords(before) :
                      before.recordMap[k].name = root.recordName
               ELSE \E m \in ExplicitMethods(before) :
                      before.methods[m].name = root.methodName

UnnumberedRecordTargets ==
    {<<"record", k>> : k \in DOMAIN before.recordMap \ NumberedRecords(before)}

ExemptTargets ==
    {<<"record", k>> : k \in DOMAIN before.recordMap \ ReachableBefore}
      \cup {<<"method", m>> : m \in (1..Len(before.methods)) \ ExplicitMethods(before)}

\* C6: every breaking change is about a record that has a stable
\* number in `before` (or a method with an explicit number), and changing
\* only records without a stable number never produces a breaking change.
C6_UnnumberedExempt ==
    Checked =>
      /\ \A c \in Changes :
           c.kind \in {"missing-slots", "record-kind-change", "variant-kind-change",
                       "missing-variant", "removed-number-reintroduced"}
             => c.record.before.recordNumber # NoNumber
      /\ touched \subseteq UnnumberedRecordTargets => breakingChanges = <<>>

\* C6 (what the check can reach): every breaking change starts from a record that has a stable
\* number in `before` or from a method that has an explicit number in
\* `before`; changing only records that have no stable number and are not
\* referred to (directly or through other records) by such a record or
\* method, or methods without an explicit number, produces no breaking change.
C6_OnlyNumberedRoots ==
    Checked =>
      /\ \A c \in Changes : RootedAtNumbered(c)
      /\ touched \subseteq ExemptTargets => breakingChanges = <<>>

\* The unnumbered record Z, which nothing numbered refers to, was changed
\* (and nothing else), and the check reported nothing.
C6_Witness ==
    /\ Checked
    /\ touched = {<<"record", 5>>}
    /\ after.recordMap[5] # [before.recordMap[5] EXCEPT !.name.side = "after",
                                                       !.fields[1].name.side = "after"]
    /\ breakingChanges = <<>>

EnumPair(pair) ==
    /\ before.recordMap[pair[1]].recordType = "enum"
    /\ after.recordMap[pair[2]].recordType = "enum"

\* C7: for every compared pair of enums, every variant of `before`
\* whose number is neither a variant nor a removed number of `after` has a
\* missing-variant change carrying its number.
C7_EveryMissingVariant ==
    Checked =>
      \A pair \in seenRecordKeys :
        EnumPair(pair) =>
          LET rb == before.recordMap[pair[1]]
              ra == after.recordMap[pair[2]]
          IN  \A i \in 1..Len(rb.fields) :
                rb.fields[i].number \notin usedNumbers(ra) =>
                  \E c \in Changes :
                    /\ c.kind = "missing-variant"
                    /\ c.number = rb.fields[i].number
                    /\ c.record.before.key = pair[1]
                    /\ c.record.after.key = pair[2]

\* C8: for every compared pair that passes the kind and slot-count checks,
\* every removed number of `before` that is the number of a field or variant
\* of `after` has a removed-number-reintroduced change carrying that number
\* and the name of the `after` field.
C8_RemovedNumberReintroduced ==
    Checked =>
      \A pair \in FieldComparedPairs :
        LET rb == before.recordMap[pair[1]]
            ra == after.recordMap[pair[2]]
        IN  \A j \in 1..Len(rb.removedNumbers) : \A i \in 1..Len(ra.fields) :
              ra.fields[i].number = rb.removedNumbers[j] =>
                \E c \in Changes :
                  /\ c.kind = "removed-number-reintroduced"
                  /\ c.removedNumber = rb.removedNumbers[j]
                  /\ c.reintroducedAs = ra.fields[i].name

\* A removed number of `before` is a live field of `after` in a compared pair.
C8_Witness ==
    /\ Checked
    /\ \E pair \in FieldComparedPairs :
         \E j \in 1..Len(before.recordMap[pair[1]].removedNumbers) :
           indexFields(after.recordMap[pair[2]],
                       before.recordMap[pair[1]].removedNumbers[j]) # Undefined

TokenAnchoredKinds ==
    {"illegal-type-change", "missing-slots", "record-kind-change",
     "variant-kind-change", "missing-variant", "removed-number-reintroduced"}

\* C9: no two breaking changes of a token-anchored kind in the returned list
\* have the same kind and the same token of getTokenForBreakingChange.
C9_OnePerKindAndToken ==
    Checked =>
      \A i \in 1..Len(breakingChanges) : \A j \in 1..Len(breakingChanges) :
        (/\ i # j
         /\ breakingChanges[i].kind \in TokenAnchoredKinds
         /\ breakingChanges[i].kind = breakingChanges[j].kind)
          => getTokenForBreakingChange(breakingChanges[i])
               # getTokenForBreakingChange(breakingChanges[j])

\* Both the request and the response type of method Get changed illegally:
\* two changes of the same kind at the method's name were pushed.
C9_Witness ==
    /\ Checked
    /\ after.methods[1].number = 101
    /\ after.methods[1].requestType = Prim("string")
    /\ after.methods[1].responseType = Prim("int64")
    /\ Cardinality(IllegalTypeChanges) = 1

----------------------------------------------------------------------------
(* Properties of ModuleSet.parseAndResolve *)

LastCall == calls[Len(calls)]

CalledBefore(modulePath) == \E c \in 1..Len(calls) : calls[c][1] = modulePath

\* C3: a top-level call parseAndResolve(p) made after an earlier top-level
\* call parseAndResolve(p) has returned returns the Result the earlier call
\* returned, which is the cached one, and leaves the module map, the record
\* map, the resolved modules and the errors unchanged.
C3_Memoized ==
    [][\A p \in Paths :
         (/\ Len(calls') = Len(calls) + 1
          /\ calls'[Len(calls')][1] = p
          /\ CalledBefore(p))
           => /\ calls'[Len(calls')][2] = modules[p]
              /\ \A c \in 1..Len(calls) :
                   calls[c][1] = p => calls[c][2] = calls'[Len(calls')][2]
              /\ UNCHANGED <<modules, mutableRecordMap, mutableResolvedModules,
                             mutableErrors>>]_vars

\* A module whose Result has errors and whose import was parsed has been
\* called a second time at top level.
C3_Witness ==
    /\ calls # <<>>
    /\ cachedAtCall
    /\ LastCall[2].errors # <<>>
    /\ LastCall[2].result # Null
    /\ Len(mutableResolvedModules) >= 1

Parsable(modulePath) ==
    files[modulePath].exists /\ ~files[modulePath].tokenError

ImportIndexes(a, b) ==
    {i \in 1..Len(files[a].imports) : files[a].imports[i].path = b}

MutualImport(a, b) ==
    /\ Parsable(a)
    /\ Parsable(b)
    /\ ImportIndexes(a, b) # {}
    /\ ImportIndexes(b, a) # {}

\* C4: when module A imports B and B imports A, every top-level call
\* parseAndResolve(A) returns, and its errors contain 'Circular dependency
\* between modules' at the path token of A's import of B; A and B being
\* interchangeable, the same holds for B, whichever is called first.
C4_CircularDependency ==
    \A a \in Paths : \A b \in Paths :
      MutualImport(a, b) =>
        \A c \in 1..Len(calls) :
          calls[c][1] = a =>
            \A i \in ImportIndexes(a, b) :
              \E e \in 1..Len(calls[c][2].errors) :
                calls[c][2].errors[e] =
                  [token |-> ImportToken(a, i), message |-> circularDependencyMessage]

\* A was resolved on the fresh module set, then B on the same one.
C4_Witness ==
    \E a \in Paths : \E b \in Paths :
      /\ a # b
      /\ MutualImport(a, b)
      /\ Len(calls) >= 2
      /\ calls[1][1] = a
      /\ calls[2][1] = b

\* C10: a module whose cached Result carries at least one error has none of
\* its records in the record map.
C10_ErrorsExcludeRecords ==
    \A p \in DOMAIN modules :
      modules[p].errors # <<>> =>
        \A k \in DOMAIN mutableRecordMap : mutableRecordMap[k].modulePath # p

Cached(modulePath) == modulePath \in DOMAIN modules

HasMessage(errors, message) ==
    \E e \in 1..Len(errors) : errors[e].message = message

\* The module's cached Result is non-null and has errors, none of them a
\* circular-dependency error.
HasPlainErrors(modulePath) ==
    /\ Cached(modulePath)
    /\ modules[modulePath].result # Null
    /\ modules[modulePath].errors # <<>>
    /\ ~HasMessage(modules[modulePath].errors, circularDependencyMessage)

\* The modules a module imports, directly or through other modules.
RECURSIVE importClosure(_)
importClosure(S) ==
    LET more == S \cup UNION {{files[p].imports[i].path :
                                 i \in 1..Len(files[p].imports)} : p \in S}
    IN  IF more = S THEN S ELSE importClosure(more)

TransitiveImports(modulePath) ==
    importClosure({files[modulePath].imports[i].path :
                     i \in 1..Len(files[modulePath].imports)})

\* C11: when module A (parsed, cached) imports module B and B's cached Result
\* is non-null with errors none of which is a circular-dependency error, A's
\* Result has exactly one diagnostic at the path token of each import
\* declaration of B, with message 'Imported module has errors' and
\* errorIsInOtherModule = true, and none of B's diagnostics; a module that
\* does not import, directly or transitively, a module with such errors has
\* no 'Imported module has errors' diagnostic.
C11_ImportedModuleHasErrors ==
    /\ \A a \in DOMAIN modules : \A b \in DOMAIN modules :
         (modules[a].result # Null /\ HasPlainErrors(b)) =>
           /\ \A i \in ImportIndexes(a, b) :
                /\ Cardinality({e \in 1..Len(modules[a].errors) :
                                  modules[a].errors[e].token = ImportToken(a, i)}) = 1
                /\ \E e \in 1..Len(modules[a].errors) :
                     modules[a].errors[e] =
                       [token |-> ImportToken(a, i),
                        message |-> "Imported module has errors",
                        errorIsInOtherModule |-> TRUE]
           /\ (ImportIndexes(a, b) # {} /\ a # b) =>
                \A e \in 1..Len(modules[a].errors) :
                  \A f \in 1..Len(modules[b].errors) :
                    modules[a].errors[e] # modules[b].errors[f]
    /\ \A c \in DOMAIN modules :
         (\A b \in TransitiveImports(c) : ~HasPlainErrors(b)) =>
           ~HasMessage(modules[c].errors, "Imported module has errors")

\* A module with two import declarations of a module with a parse error has
\* been resolved, and so has a module that imports neither.
C11_Witness ==
    \E a \in DOMAIN modules : \E b \in DOMAIN modules : \E c \in DOMAIN modules :
      /\ modules[a].result # Null
      /\ Cardinality(ImportIndexes(a, b)) = 2
      /\ HasPlainErrors(b)
      /\ c \notin {a, b}
      /\ modules[c].errors = <<>>
      /\ modules[c].result # Null

\* The modules a parsable module imports (an unparsable one shows no import).
RECURSIVE parsedImportClosure(_)
parsedImportClosure(S) ==
    LET more == S \cup UNION {{files[p].imports[i].path :
                                 i \in 1..Len(files[p].imports)} :
                              p \in {q \in S : Parsable(q)}}
    IN  IF more = S THEN S ELSE parsedImportClosure(more)

\* The module parses and imports itself through modules that parse.
OnImportCycle(modulePath) ==
    /\ Parsable(modulePath)
    /\ modulePath \in parsedImportClosure({files[modulePath].imports[i].path :
                                             i \in 1..Len(files[modulePath].imports)})

\* C12: a call parseAndResolve for a module that lies on an import cycle
\* returns a Result whose result is null.
C12_CyclicResultIsNull ==
    \A c \in 1..Len(calls) :
      OnImportCycle(calls[c][1]) => calls[c][2].result = Null

\* C12 (result kept): a call parseAndResolve for a module that lies on an
\* import cycle returns, and the Result it returns has the parsed module as
\* its result (not null) and a 'Circular dependency between modules' error.
C12_CyclicResultHasModule ==
    \A c \in 1..Len(calls) :
      OnImportCycle(calls[c][1]) =>
        /\ calls[c][2].result # Null
        /\ calls[c][2].result.path = calls[c][1]
        /\ HasMessage(calls[c][2].errors, circularDependencyMessage)

\* A module on a cycle through two other modules has been resolved.
C12_Witness ==
    /\ calls # <<>>
    /\ OnImportCycle(LastCall[1])
    /\ \A b \in Paths : ~MutualImport(LastCall[1], b)
    /\ LastCall[2].result # Null

----------------------------------------------------------------------------
(* Properties of loop 3 of doParseAndResolve *)

\* The records loop 3 has handled.
Resolved == 1..loop3

directRefs(type) == IF type.kind = "record" THEN {type.key} ELSE {}

\* Records reachable following record references only, from structs only.
RECURSIVE hardClosure(_)
hardClosure(S) ==
    LET more == S \cup UNION {UNION {directRefs(mutableRecordMap[k].fields[i].type) :
                                       i \in 1..Len(mutableRecordMap[k].fields)} :
                              k \in {r \in S : mutableRecordMap[r].recordType = "struct"}}
    IN  IF more = S THEN S ELSE hardClosure(more)

\* Records reachable through arrays, optionals, structs and enums.
RECURSIVE softClosure(_)
softClosure(S) ==
    LET more == S \cup UNION {UNION {recordRefs(mutableRecordMap[k].fields[i].type) :
                                       i \in 1..Len(mutableRecordMap[k].fields)} :
                              k \in S}
    IN  IF more = S THEN S ELSE softClosure(more)

ExpectedRecursivity(record, field) ==
    IF record.recordType = "struct" /\ record.key \in hardClosure(directRefs(field.type))
    THEN "hard"
    ELSE IF record.key \in softClosure(recordRefs(field.type))
    THEN "soft"
    ELSE "false"

\* C13: after loop 3 has handled record R of an error-free module, every
\* field with a type of R has isRecursive = 'hard' when R is a struct
\* reachable from the field's type by record references only (no array item,
\* no optional, no field of an enum), else 'soft' when R is reachable through
\* arrays, optionals, structs and enums, else false; never 'hard' in an enum.
C13_FieldRecursivity ==
    \A k \in Resolved :
      \A i \in 1..Len(mutableRecordMap[k].fields) :
        LET record == mutableRecordMap[k]
            field == record.fields[i]
        IN  field.type # NoType =>
              /\ field.isRecursive = ExpectedRecursivity(record, field)
              /\ record.recordType = "enum" => field.isRecursive # "hard"

\* All records are resolved; a struct refers directly to an enum that refers
\* back to it (soft), another struct field is hard, an enum field is soft.
C13_Witness ==
    /\ loop3 = Cardinality(RecordIds)
    /\ \E k \in RecordIds : \E i \in 1..2 :
         /\ mutableRecordMap[k].recordType = "struct"
         /\ mutableRecordMap[k].fields[i].type.kind = "record"
         /\ mutableRecordMap[mutableRecordMap[k].fields[i].type.key].recordType = "enum"
         /\ mutableRecordMap[k].fields[i].isRecursive = "soft"
    /\ \E k \in RecordIds : \E i \in 1..2 :
         mutableRecordMap[k].fields[i].isRecursive = "hard"
    /\ \E k \in RecordIds : \E i \in 1..2 :
         /\ mutableRecordMap[k].recordType = "enum"
         /\ mutableRecordMap[k].fields[i].isRecursive = "soft"

\* The errors of verifyNumberingConstraint at the type of field i of record k.
NumberingErrorsAt(k, i) ==
    {e \in DOMAIN mutableErrors :
       /\ mutableErrors[e].token = RefToken(k, i)
       /\ \E referenced, owner \in {"struct", "enum"} :
            mutableErrors[e].message = ImplicitNumberingMessage(referenced, owner)}

RefersToImplicit(type) ==
    /\ type.kind = "record"
    /\ mutableRecordMap[type.key].numbering = "implicit"

\* C14 as stated: after loop 3 has handled a record, an implicit-numbering
\* error is reported at a field exactly when the record has explicit
\* numbering and the field's type is itself a reference to a record with
\* implicit numbering (a reference inside an array or optional is not
\* reported).
C14_OnlyDirectReferences ==
    \A k \in Resolved :
      \A i \in 1..Len(mutableRecordMap[k].fields) :
        LET record == mutableRecordMap[k]
        IN  NumberingErrorsAt(k, i) # {}
              <=> /\ record.numbering = "explicit"
                  /\ RefersToImplicit(record.fields[i].type)

\* C14 amended: the error is reported (once, at the reference's token, naming
\* both record types) exactly when the record has explicit numbering and the
\* field's type, with its arrays and optionals taken off, is a reference to a
\* record with implicit numbering; never for a record with implicit numbering.
C14_ReferencesThroughWrappers ==
    \A k \in Resolved :
      \A i \in 1..Len(mutableRecordMap[k].fields) :
        LET record == mutableRecordMap[k]
            leaf == leafOf(record.fields[i].type)
        IN  IF record.numbering = "explicit" /\ RefersToImplicit(leaf)
            THEN /\ Cardinality(NumberingErrorsAt(k, i)) = 1
                 /\ \A e \in NumberingErrorsAt(k, i) :
                      mutableErrors[e].message =
                        ImplicitNumberingMessage(leaf.recordType, record.recordType)
            ELSE NumberingErrorsAt(k, i) = {}

\* Record 1 has explicit numbering and was handled; one field refers to the
\* implicitly numbered record directly and the other inside an array or
\* optional, and both are reported.
C14_Witness ==
    /\ loop3 >= 1
    /\ mutableRecordMap[1].numbering = "explicit"
    /\ mutableRecordMap[2].numbering = "implicit"
    /\ mutableRecordMap[1].fields[1].type = RecordRef(2, mutableRecordMap[2].recordType, RefToken(1, 1))
    /\ mutableRecordMap[1].fields[2].type.kind \in {"array", "optional"}
    /\ NumberingErrorsAt(1, 1) # {}
    /\ NumberingErrorsAt(1, 2) # {}

----------------------------------------------------------------------------
(* Properties of parseRecord *)

Parsed == parsedRecord # Null

ErrorsWith(text) ==
    {e \in DOMAIN builder.errors : builder.errors[e].message[1] = text}

FieldNumbers(record) == {record.fields[i].number : i \in 1..Len(record.fields)}

\* C15: a struct built without an error has the field numbers
\* {0..numSlots-1} minus removedNumbers and numSlots <=
\* numSlotsInclRemovedNumbers; when the numbers the builder registered for the
\* fields and removed markers of a struct are not exactly {0..n-1}, exactly
\* one 'Missing field number i' error is reported, at the struct name, with
\* i the smallest missing number.
C15_DenseStructNumbers ==
    (Parsed /\ parsedRecord.recordType = "struct") =>
      /\ builder.errors = <<>> =>
           /\ FieldNumbers(parsedRecord)
                = (0..(parsedRecord.numSlots - 1)) \ SeqToSet(parsedRecord.removedNumbers)
           /\ parsedRecord.numSlots <= parsedRecord.numSlotsInclRemovedNumbers
      /\ builder.numbers # 0..(Cardinality(builder.numbers) - 1) =>
           /\ Cardinality(ErrorsWith("Missing field number")) = 1
           /\ \A e \in ErrorsWith("Missing field number") :
                /\ builder.errors[e].token = RecordNameToken
                /\ builder.errors[e].message[2] \notin builder.numbers
                /\ \A j \in 0..(builder.errors[e].message[2] - 1) : j \in builder.numbers

\* A struct was built from two fields and a removed marker; two of the
\* numbers below its three are missing and one is reported.
C15_Witness ==
    /\ Parsed
    /\ parsedRecord.recordType = "struct"
    /\ Len(parsedRecord.fields) = 2
    /\ Len(parsedRecord.removedNumbers) = 1
    /\ ErrorsWith("Missing field number") # {}
    /\ Cardinality((0..Cardinality(builder.numbers) - 1) \ builder.numbers) = 2

\* The numbering mode of a declaration ("" for a nested record).
ModeOf(declaration) ==
    CASE declaration.kind = "field" ->
           IF declaration.number < 0 THEN "implicit" ELSE "explicit"
      [] declaration.kind = "removed" ->
           IF declaration.numbers # <<>> THEN "explicit" ELSE "implicit"
      [] OTHER -> ""

Min(S) == CHOOSE x \in S : \A y \in S : x <= y

Moded(body) == {i \in DOMAIN body.declarations : ModeOf(body.declarations[i]) # ""}

\* The first declaration whose mode differs from the mode the first numbered
\* declaration established (0 when there is none).
FirstMix(body) ==
    LET differing == {i \in Moded(body) :
                        ModeOf(body.declarations[i])
                          # ModeOf(body.declarations[Min(Moded(body))])}
    IN  IF differing = {} THEN 0 ELSE Min(differing)

\* The body mixes the modes and no number was duplicated before the change.
MixesNumbering(body) ==
    /\ FirstMix(body) # 0
    /\ addDeclarations(NewRecordBuilder(body.recordType),
                       SubSeq(body.declarations, 1, FirstMix(body) - 1), 1).numbering
         # "broken"

\* C16: a body that holds both an explicitly and an implicitly numbered
\* declaration (no number duplicated before the mode changes) gets exactly
\* one 'Cannot mix implicit and explicit numbering' error, at the first
\* declaration whose mode differs from the established one; the record has
\* numbering 'broken', and the declarations after that one are ignored (the
\* record is the one the body cut after that declaration gives).
C16_MixedNumbering ==
    (Parsed /\ MixesNumbering(recordBody)) =>
      /\ Cardinality(ErrorsWith("Cannot mix implicit and explicit numbering")) = 1
      /\ \A e \in ErrorsWith("Cannot mix implicit and explicit numbering") :
           builder.errors[e].token = DeclarationToken(FirstMix(recordBody))
      /\ parsedRecord.numbering = "broken"
      /\ parsedRecord
           = parseRecord([recordBody EXCEPT
                            !.declarations = SubSeq(@, 1, FirstMix(recordBody))]).record
      /\ builder.errors
           = parseRecord([recordBody EXCEPT
                            !.declarations = SubSeq(@, 1, FirstMix(recordBody))]).builder.errors

\* The second declaration changes the mode and a third declaration, which
\* would otherwise be registered, follows it.
C16_Witness ==
    /\ Parsed
    /\ MixesNumbering(recordBody)
    /\ FirstMix(recordBody) = 2
    /\ Len(recordBody.declarations) = 3
    /\ recordBody.declarations[3].kind = "field"
    /\ recordBody.declarations[3].name = "b"
    /\ \A i \in 1..2 : recordBody.declarations[i].kind = "field"
                         => recordBody.declarations[i].name = "a"

\* C20: the removedNumbers of every record the parser builds are in
\* ascending numeric order.
C20_RemovedNumbersAscending ==
    Parsed =>
      \A i, j \in DOMAIN parsedRecord.removedNumbers :
        i < j => parsedRecord.removedNumbers[i] < parsedRecord.removedNumbers[j]

----------------------------------------------------------------------------
(* Properties of parseMethod *)

\* h := (h * 31 + c) mod 2^32 over the code units from i on, with h held as
\* its two 16-bit halves.
RECURSIVE Fold31(_, _, _)
Fold31(input, h, i) ==
    IF i > Len(input) THEN h
    ELSE LET low == h.lo * 31 + input[i]
         IN  Fold31(input,
                    [hi |-> (h.hi * 31 + low \div Radix) % Radix, lo |-> low % Radix],
                    i + 1)

\* C17: a method declared without '= number' has hasExplicitNumber = false
\* and the number simpleHash(modulePath + ':' + methodName), which is the
\* fold of h := (h * 31 + c) mod 2^32 over the code units from h = 0 and
\* lies in [0, 2^32).
C17_MethodNumberIsHash ==
    (parsedMethod # Null /\ methodTokens.number = Null) =>
      /\ parsedMethod.hasExplicitNumber = FALSE
      /\ parsedMethod.number
           = Fold31(methodTokens.modulePath \o <<Colon>> \o methodTokens.name,
                    [hi |-> 0, lo |-> 0], 1)
      /\ parsedMethod.number.hi \in 0..(Radix - 1)
      /\ parsedMethod.number.lo \in 0..(Radix - 1)

\* A method without a number whose hash has passed 2^31 (its signed value in
\* the loop is negative).
C17_Witness ==
    /\ parsedMethod # Null
    /\ methodTokens.number = Null
    /\ parsedMethod.number.hi >= Radix \div 2
    /\ Len(methodTokens.modulePath) = MaxPathLength

----------------------------------------------------------------------------
(* Properties of the constants *)

\* The constant was evaluated and its value has its type.
TypeChecks == constant # Null /\ constant.resolved /\ constant.valueAsDenseJson # JsonUndefined

\* The literals that denote the default value of a primitive type.
DefaultLiterals(primitive) ==
    CASE primitive \in {"int32", "int64"} -> {"0", "-0"}
      [] primitive = "string" -> {"''"}
      [] primitive = "bool" -> {"false"}

\* The value is the default of its type: 0, "", false, the empty array, a
\* struct of default values, null for an optional.
RECURSIVE IsDefault(_, _)
IsDefault(value, type) ==
    CASE type.kind = "optional" -> value.kind = "literal" /\ value.token.text = "null"
      [] type.kind = "array" -> value.items = <<>>
      [] type.kind = "record" ->
           \A i \in 1..Len(mutableRecordMap[type.key].fields) :
             LET field == mutableRecordMap[type.key].fields[i]
             IN  IsDefault(lookup(value.entries, field.name.text).value, field.type)
      [] type.kind = "primitive" -> value.token.text \in DefaultLiterals(type.primitive)

NonDefaultNumbers(value, struct) ==
    {struct.fields[i].number : i \in
       {j \in 1..Len(struct.fields) :
          ~IsDefault(lookup(value.entries, struct.fields[j].name.text).value,
                     struct.fields[j].type)}}

\* C18: the dense JSON of a struct constant that type-checks has length 1 +
\* the greatest number of a field whose value is not the default of its
\* type, and length 0 when every field has its default.
C18_TrailingDefaultsTrimmed ==
    (TypeChecks /\ constant.type.kind = "record") =>
      LET numbers == NonDefaultNumbers(constant.value, mutableRecordMap[constant.type.key])
      IN  Len(constant.valueAsDenseJson.items)
            = IF numbers = {} THEN 0 ELSE 1 + Max(numbers)

\* The int64 field holds -0 and every field after it its default; the
\* array stops at the int32 field before the removed slot.
C18_Witness ==
    /\ TypeChecks
    /\ constant.type.kind = "record"
    /\ lookup(constant.value.entries, "big").value.token.text = "-0"
    /\ lookup(constant.value.entries, "opt_a").value.token.text = "0"
    /\ Len(constant.valueAsDenseJson.items) = 2

KeyedArray == constant # Null /\ constant.resolved /\ constant.type.kind = "array"

\* The value of the key of an item: the entries along the path, or the name
\* of the variant where the path ends with the kind of an enum.
RECURSIVE KeyOf(_, _)
KeyOf(value, path) ==
    IF path = <<>> \/ value.kind = "literal" THEN value
    ELSE KeyOf(lookup(value.entries, Head(path).name.text).value, Tail(path))

Keys == [i \in DOMAIN constant.value.items |->
           KeyOf(constant.value.items[i], constant.type.key.path)]

\* The key has an identity: it is a literal of the type of the key.
HasIdentity(i) ==
    IF constant.type.key.keyType.kind = "primitive"
    THEN valueHasPrimitiveType(Keys[i].token.text, constant.type.key.keyType.primitive)
    ELSE isStringLiteral(Keys[i].token.text)

KeyIdentity(i) ==
    IF constant.type.key.keyType.kind = "primitive"
    THEN literalValueToIdentity(Keys[i].token.text, constant.type.key.keyType.primitive)
    ELSE unquoteAndUnescape(Keys[i].token.text)

SharesKey(i) ==
    /\ HasIdentity(i)
    /\ \E j \in DOMAIN Keys : j # i /\ HasIdentity(j) /\ KeyIdentity(j) = KeyIdentity(i)

DuplicateKeyErrors ==
    {e \in DOMAIN mutableErrors :
       /\ "message" \in DOMAIN mutableErrors[e]
       /\ mutableErrors[e].message = <<"Duplicate key">>}

\* C19 as stated: in a keyed array value (every item has its key), every
\* item whose key identity is that of another item has a 'Duplicate key'
\* error at its key token, and there is none when the identities differ.
C19_DuplicateKeys ==
    KeyedArray =>
      /\ \A i \in DOMAIN Keys :
           SharesKey(i) => \E e \in DuplicateKeyErrors : mutableErrors[e].token = Keys[i].token
      /\ (\A i \in DOMAIN Keys : ~SharesKey(i)) => DuplicateKeyErrors = {}

\* C19 amended: in a keyed array value whose items all have the item type,
\* the 'Duplicate key' errors are, once each, the key tokens of the items
\* whose key identity is that of another item.
C19_DuplicateKeysOfTypedItems ==
    (KeyedArray /\ TypeChecks) =>
      /\ \A i \in DOMAIN Keys :
           Cardinality({e \in DuplicateKeyErrors : mutableErrors[e].token = Keys[i].token})
             = IF SharesKey(i) THEN 1 ELSE 0
      /\ \A e \in DuplicateKeyErrors :
           \E i \in DOMAIN Keys : mutableErrors[e].token = Keys[i].token

\* Two items with the key "a", written 'a' and "a", each reported.
C19_Witness ==
    /\ KeyedArray
    /\ TypeChecks
    /\ Len(constant.value.items) = 2
    /\ constant.type.key.keyType = Prim("string")
    /\ Keys[1].token.text = "'a'"
    /\ Keys[2].token.text = "\"a\""
    /\ Cardinality(DuplicateKeyErrors) = 2

----------------------------------------------------------------------------
(* Properties of the steps of parseAndResolve and doParseAndResolve *)

\* The steps of the log with the given operation.
Steps(op) == {n \in 1..Len(resolutionLog) : resolutionLog[n].op = op}

\* How many times the operation was done for the path before step n.
TimesBefore(op, modulePath, n) ==
    Cardinality({m \in Steps(op) : m < n /\ resolutionLog[m].path = modulePath})

ImportsOf(modulePath) ==
    {files[modulePath].imports[i].path : i \in 1..Len(files[modulePath].imports)}

\* C21: when loop 2 of doParseAndResolve starts for module A, every module A
\* imports has been run by doParseAndResolve, each of its runs has returned
\* and written the cache, it is not in the in-progress set, its cached Result
\* has a module and zero errors, and its records are in the record map;
\* and every key loop 3 looks up in the record map is a key of the map.
C21_ImportsResolvedFirst ==
    /\ \A n \in Steps("loop2") :
         \A b \in ImportsOf(resolutionLog[n].path) :
           /\ TimesBefore("run", b, n) >= 1
           /\ TimesBefore("set", b, n) = TimesBefore("run", b, n)
           /\ b \notin resolutionLog[n].inProgressSet
           /\ b \in resolutionLog[n].errorFree
           /\ \A r \in 1..2 : RecordNames(b)[r] \in resolutionLog[n].recordKeys
    /\ \A n \in Steps("loop3") :
         resolutionLog[n].lookedUp \subseteq resolutionLog[n].recordKeys

\* Loop 3 of a module has looked up a record of a module it does not import
\* itself: A imports B, B imports C, and a field of C's type is reached.
C21_Witness ==
    \E n \in Steps("loop3") :
      LET a == resolutionLog[n].path
      IN  /\ ImportsOf(a) # {}
          /\ \E c \in Paths \ (ImportsOf(a) \cup {a}) :
               RecordNames(c)[1] \in resolutionLog[n].lookedUp

\* C22: doParseAndResolve runs at most once for each module path, and the
\* cache entry of each path is written at most once.
C22_ResolvedAtMostOnce ==
    \A p \in Paths :
      /\ Cardinality({n \in Steps("run") : resolutionLog[n].path = p}) <= 1
      /\ Cardinality({n \in Steps("set") : resolutionLog[n].path = p}) <= 1

\* No parsable module imports itself, directly or through parsable modules.
Acyclic == \A p \in Paths : ~OnImportCycle(p)

EveryImportExists ==
    \A p \in Paths : Parsable(p) => \A b \in ImportsOf(p) : files[b].exists

\* C23: the in-progress set a top-level call made is empty when the call has
\* returned; and when the import graph is acyclic and every imported module
\* exists, no Result and no error of the module set has a 'Circular
\* dependency between modules' diagnostic, whatever calls were made.
C23_InProgressSetScoped ==
    /\ inProgressSet = {}
    /\ (Acyclic /\ EveryImportExists) =>
         /\ ~HasMessage(mutableErrors, circularDependencyMessage)
         /\ \A p \in DOMAIN modules :
              ~HasMessage(modules[p].errors, circularDependencyMessage)
         /\ \A c \in 1..Len(calls) :
              ~HasMessage(calls[c][2].errors, circularDependencyMessage)

\* Two top-level calls were made, the first for a module with two import
\* declarations or more, on an acyclic graph where every import exists.
C23_Witness ==
    /\ Acyclic
    /\ EveryImportExists
    /\ Len(calls) = 2
    /\ calls[1][1] # calls[2][1]
    /\ Parsable(calls[1][1])
    /\ Len(files[calls[1][1]].imports) >= 2
    /\ ImportsOf(calls[2][1]) # {}
    /\ Cardinality(DOMAIN modules) = 3

\* How many times a diagnostic is in a list of errors.
Occurrences(errors, diagnostic) ==
    Cardinality({e \in 1..Len(errors) : errors[e] = diagnostic})

RECURSIVE OccurrencesInCache(_, _)
OccurrencesInCache(cached, diagnostic) ==
    IF cached = {} THEN 0
    ELSE LET p == CHOOSE q \in cached : TRUE
         IN  Occurrences(modules[p].errors, diagnostic)
               + OccurrencesInCache(cached \ {p}, diagnostic)

\* C26: ModuleSet.errors holds each diagnostic of each cached Result as many
\* times as the cached Results do, holds no diagnostic twice, and holds no
\* diagnostic that no cached Result has.
C26_ErrorsOncePerModule ==
    \A diagnostic \in {mutableErrors[e] : e \in 1..Len(mutableErrors)}
                        \cup UNION {{modules[p].errors[e] : e \in 1..Len(modules[p].errors)} :
                                      p \in DOMAIN modules} :
      /\ Occurrences(mutableErrors, diagnostic)
           = OccurrencesInCache(DOMAIN modules, diagnostic)
      /\ Occurrences(mutableErrors, diagnostic) <= 1

----------------------------------------------------------------------------
(* Properties of checkBackwardCompatibility on recursive records *)

\* The record pairs that can be reached from a set of pairs: the pairs of
\* record references at the same field number of a pair of records of the
\* same kind.
PairsBelow(pair) ==
    LET b == before.recordMap[pair[1]]
        a == after.recordMap[pair[2]]
    IN  {<<leafOf(b.fields[i].type).key, leafOf(a.fields[j].type).key>> :
           <<i, j>> \in {ij \in (1..Len(b.fields)) \X (1..Len(a.fields)) :
                           /\ b.fields[ij[1]].number = a.fields[ij[2]].number
                           /\ b.fields[ij[1]].type # NoType
                           /\ a.fields[ij[2]].type # NoType
                           /\ leafOf(b.fields[ij[1]].type).kind = "record"
                           /\ leafOf(a.fields[ij[2]].type).kind = "record"}}

\* C24: when checkBackwardCompatibility has returned, the body of
\* checkRecord has run at most once for each pair of record keys (the pairs
\* it ran for are the pairs seen), and the number of its runs is at most the
\* product of the record counts of the two snapshots.
C24_DescentsBounded ==
    /\ \A m \in 1..Len(descents) : \A n \in 1..Len(descents) :
         descents[m] = descents[n] => m = n
    /\ Len(descents) <= Len(before.records) * Len(after.records)
    /\ {descents[n] : n \in 1..Len(descents)} = seenRecordKeys

\* The check has run on snapshots where records 1 and 3 refer to each other
\* (mutual recursion), record 2 refers to itself and to nothing else, and
\* the pair (3, 3) is reached from the method, from record 1 and from itself.
C24_Witness ==
    /\ phase = "checked"
    /\ after # before
    /\ <<1, 1>> \in PairsBelow(<<3, 3>>)
    /\ <<3, 3>> \in PairsBelow(<<1, 1>>)
    /\ <<2, 2>> \in PairsBelow(<<2, 2>>)
    /\ {<<1, 1>>, <<2, 2>>, <<3, 3>>} \subseteq seenRecordKeys

\* C27: checkBackwardCompatibility({before: S, after: S}) returns an empty
\* list for every module set S resolved without errors.
C27_Reflexive ==
    (phase = "checked" /\ after = before) => breakingChanges = <<>>

\* The check has run on S and S, where S has a struct and an enum that refer
\* to each other, a removed number in each and an enum with a constant
\* variant and a value variant.
C27_Witness ==
    /\ phase = "checked"
    /\ after = before
    /\ before.recordMap[2].recordType = "enum"
    /\ before.recordMap[2].fields[1].type = NoType
    /\ before.recordMap[2].fields[2].type # NoType
    /\ before.recordMap[2].removedNumbers # <<>>
    /\ before.recordMap[1].removedNumbers # <<>>
    /\ <<2, 2>> \in PairsBelow(<<1, 1>>)
    /\ <<1, 1>> \in PairsBelow(<<2, 2>>)
    /\ {<<1, 1>>, <<2, 2>>, <<3, 3>>} \subseteq seenRecordKeys

----------------------------------------------------------------------------
(* Properties of parseDeclarations *)

RECURSIVE Depth(_, _)
\* The nesting level after the tokens with the indexes from..to-1, counted from
\* level 0: the '{' among them minus the '}'.
Depth(from, to) ==
    IF to <= from THEN 0
    ELSE Depth(from, to - 1)
           + (IF moduleTokens[to] = "{" THEN 1
              ELSE IF moduleTokens[to] = "}" THEN -1
              ELSE 0)

\* Is the token with index k the end of a statement that recovery from the
\* index `from` may stop after?
Boundary(from, k) ==
    /\ moduleTokens[k + 1] \in {";", "}"}
    /\ Depth(from, k + 1) <= 0

\* The index of the token with the empty text.
Sentinel == Len(moduleTokens) - 1

----------------------------------------------------------------------------
(* Properties of the WatchModeMainLoop *)

\* C28: at most one generate() run is in progress and at most one timeout is
\* pending, the pending timeout being the one timeoutId names; while
\* generating is true a generate() run is in progress, no timeout is pending,
\* and an event delivered by the Watcher changes nothing but mustRegenerate.
C28_OneGenerationAtATime ==
    /\ [](/\ Len(generateRuns) <= 1
          /\ Cardinality(timeouts) <= 1
          /\ \A timeout \in timeouts : timeout.id = timeoutId
          /\ generating <=> generateRuns # <<>>
          /\ generating => timeouts = {})
    /\ [][(generating /\ changeEvents' # changeEvents) =>
            /\ generating'
            /\ timeouts' = timeouts
            /\ timeoutId' = timeoutId
            /\ timeoutsSet' = timeoutsSet
            /\ generateRuns' = generateRuns]_vars

\* A generation started by a timeout is in progress and an event on a '.soia'
\* file has arrived during it.
C28_Witness ==
    /\ generating
    /\ mustRegenerate
    /\ unserved
    /\ Len(generateRuns) = 1
    /\ generateRuns[1].caller = "timeout"

\* C29: every event on a '.soia' file is eventually followed by the start of
\* a generate() run, when the events stop, the pending timeouts fire and each
\* generation finishes.
C29_EventsAreServed == unserved ~> ~unserved

\* A generate() run is in progress that was started by the timeout the
\* finally block of the previous run set, because an event on a '.soia' file
\* arrived during that run; no event has arrived since.
C29_Witness ==
    /\ ~unserved
    /\ Len(generateRuns) = 1
    /\ generateRuns[1].by = "finally"

----------------------------------------------------------------------------
(* Properties of the Workspace *)

\* C30: a promise obtained from resolutionDone while a resolution is
\* scheduled is eventually fulfilled.
C30_PromiseFulfilled ==
    \A p \in 1..MaxPromises :
      ([promise |-> p, scheduled |-> TRUE] \in obtained)
        ~> (p <= Len(promises) /\ promises[p] = "fulfilled")

====
